---------------------------- MODULE Spec2Model ----------------------------
(***************************************************************************)
(* DxOS console layer: the scancode queue (keyboard.rs), the VGA text      *)
(* writer (vga_buffer.rs), the line-editing shell (shell.rs), and the      *)
(* kernel entry with its interrupt handlers (main.rs, interrupts.rs).      *)
(*                                                                         *)
(* Bytes and characters are their numeric codes (b'a' = 97).  A screen     *)
(* cell (ScreenChar, repr(C): ascii_character then color_code) is the      *)
(* 16-bit value ascii_character + 256 * color_code that sits in display    *)
(* memory.  Option values are sequences: None == <<>>, Some(x) == <<x>>.   *)
(*                                                                         *)
(* The source's functions are operators that take the state they work on   *)
(* and return the state they leave.  Rust evaluates a value once, where it *)
(* is bound; Let(v, LAMBDA x : e) does the same here, and Fold runs a loop *)
(* body over the elements of a sequence, in order.                         *)
(***************************************************************************)
EXTENDS Integers, Sequences, FiniteSets

VARIABLES
    SCANCODE_QUEUE,        \* keyboard.rs: static SCANCODE_QUEUE (buffer, read_pos, write_pos)
    WRITER,                \* vga_buffer.rs: static WRITER (cursor, color, display memory)
    LINE_BUF,              \* shell.rs: static mut LINE_BUF
    LINE_LEN,              \* shell.rs: static mut LINE_LEN
    HISTORY,               \* shell.rs: static mut HISTORY
    HISTORY_LENS,          \* shell.rs: static mut HISTORY_LENS
    HISTORY_INDEX,         \* shell.rs: static mut HISTORY_INDEX
    HISTORY_COUNT,         \* shell.rs: static mut HISTORY_COUNT
    HISTORY_BROWSE_INDEX,  \* shell.rs: static mut HISTORY_BROWSE_INDEX
    halted,                \* TRUE once reset_cpu() has been entered (it never returns)
    idt_loaded,            \* interrupts.rs: IDT.load() has been executed
    interrupts_enabled,    \* the CPU's interrupt flag (sti sets it, an interrupt gate clears it)
    PICS,                  \* interrupts.rs: static PICS, the two chained 8259 controllers
    keyboard_port,         \* the keyboard controller behind ports 0x64 (status) and 0x60 (data)
    locks,                 \* who holds each spin::Mutex: "free", "main" or "handler"
    main,                  \* main.rs _start: its position and local variables
    handler,               \* the interrupt handler being executed, None in normal context
    INTERRUPT_COUNT,       \* interrupts.rs: static mut INTERRUPT_COUNT
    TIMER_COUNT,           \* interrupts.rs: static mut TIMER_COUNT
    obs,                   \* the last operation: what it was given, returned and printed
    log                    \* the run so far: bytes accepted and popped, lines submitted, counters

shellVars ==
    <<LINE_BUF, LINE_LEN, HISTORY, HISTORY_LENS, HISTORY_INDEX, HISTORY_COUNT,
      HISTORY_BROWSE_INDEX, halted>>
machineVars ==
    <<idt_loaded, interrupts_enabled, PICS, keyboard_port, locks, main, handler,
      INTERRUPT_COUNT, TIMER_COUNT>>
vars == <<SCANCODE_QUEUE, WRITER, shellVars, machineVars, obs, log>>

None == <<>>
Some(x) == <<x>>

(***************************************************************************)
(* Program constants                                                       *)
(***************************************************************************)
SCANCODE_QUEUE_SIZE == 16
BUFFER_HEIGHT == 25
BUFFER_WIDTH == 80
LINE_BUF_LEN == 128
HISTORY_SIZE == 10
MAX_TOKENS == 8
\* Color::White as u8 | (Color::Black as u8) << 4
WHITE_ON_BLACK == 15
\* the glyph write_string substitutes for a byte it does not print
REPLACEMENT_GLYPH == 254
\* the width of the name column of cmd_help, {:<12}
HELP_NAME_WIDTH == 12
NL == 10
CR == 13
SPACE == 32
TAB == 9
BS == 8
DEL == 127
\* constants.rs interrupts: the vectors the controllers are remapped to
PIC_1_OFFSET == 32
PIC_2_OFFSET == PIC_1_OFFSET + 8
\* the color bytes the handlers write next to `INT!` and `TIMER!`
INT_COLOR == 79
TIMER_COLOR == 47
\* breakpoint_handler writes `BP!` at this byte offset of display memory, in
\* this color
BP_OFFSET == 320
BP_COLOR == 46
\* keyboard_interrupt_handler shows `INT!` for its first invocations
INT_SHOWN == 5
\* scancodes (set 1): A pressed, A released, Enter pressed
SC_A == 30
SC_A_RELEASED == 158
SC_ENTER == 28

(***************************************************************************)
(* Bounds of the model                                                     *)
(***************************************************************************)
\* scancodes that arrive at add_scancode in one run
MaxArrivals == 19
\* the first arrivals may be either of two bytes, later ones are numbered
MaxFreeBytes == 2
\* display operations in one run of the display specification
MaxOps == 3
\* Enter presses in one run of the command specification
MaxEnters == 2
\* Enter presses in one run of the editing specification
MaxEditEnters == 2
\* lines submitted in one run of the history specification
MaxSubmits == 12
\* Enter presses in one run of the dispatch specification
MaxCommandEnters == 2
\* line buffer overflows in one run of the long-line specification
MaxOverflows == 2
\* Backspace presses on a line that fills a display row, in one run of the
\* long-line specification
MaxFillBackspaces == 3
\* bytes the keyboard delivers in one run of the kernel
MaxKeyBytes == 16
\* timer ticks in one run of the kernel
MaxTicks == 1
\* requests of other devices in one run of the kernel
MaxRequests == 1
\* breakpoint exceptions in one run of the exception specification
MaxBreakpoints == 1

(***************************************************************************)
(* Evaluation helpers                                                      *)
(***************************************************************************)
Only(S) == CHOOSE v \in S : TRUE

\* let x = v; e
Let(v, E(_)) == Only({E(x) : x \in {v}})

\* for x in s[lo..=hi] { acc = Body(acc, x) }, the range halved to keep the
\* evaluation shallow
RECURSIVE FoldRange(_, _, _, _, _)
FoldRange(Body(_, _), acc, s, lo, hi) ==
    IF lo > hi THEN acc
    ELSE IF lo = hi THEN Body(acc, s[lo])
    ELSE Let(FoldRange(Body, acc, s, lo, (lo + hi) \div 2),
             LAMBDA mid : FoldRange(Body, mid, s, (lo + hi) \div 2 + 1, hi))

\* for x in s { acc = Body(acc, x) }
Fold(Body(_, _), acc0, s) == Let(acc0, LAMBDA acc : FoldRange(Body, acc, s, 1, Len(s)))

\* the range lo..hi (hi exclusive) as the sequence a `for i in lo..hi` loop runs over
Range(lo, hi) == [i \in 1..(IF hi > lo THEN hi - lo ELSE 0) |-> lo + i - 1]

IsPrefix(s, t) == Len(s) <= Len(t) /\ SubSeq(t, 1, Len(s)) = s

Repeat(x, n) == [i \in 1..n |-> x]

Min(a, b) == IF a < b THEN a ELSE b

\* &a[..n] of a zero-based array, as a sequence
Slice(a, n) == [i \in 1..n |-> a[i - 1]]

(***************************************************************************)
(* keyboard.rs: ScancodeQueue                                              *)
(***************************************************************************)
ScancodeQueue_new ==
    [buffer |-> [i \in 0..SCANCODE_QUEUE_SIZE - 1 |-> 0], read_pos |-> 0, write_pos |-> 0]

\* a push that does not test for a full queue
ScancodeQueue_push_nocheck(q, scancode) ==
    [q |-> [q EXCEPT !.buffer[q.write_pos] = scancode,
                     !.write_pos = (q.write_pos + 1) % SCANCODE_QUEUE_SIZE],
     result |-> "Ok"]

\* a push that stores the byte before it finds the queue full
ScancodeQueue_push_clobber(q, scancode) ==
    LET next_write == (q.write_pos + 1) % SCANCODE_QUEUE_SIZE
        stored == [q EXCEPT !.buffer[q.write_pos] = scancode]
    IN  IF next_write = q.read_pos
        THEN [q |-> stored, result |-> "Err"]
        ELSE [q |-> [stored EXCEPT !.write_pos = next_write], result |-> "Ok"]

\* push: [q |-> the queue afterwards, result |-> "Ok" or "Err"]
ScancodeQueue_push(q, scancode) ==
    LET next_write == (q.write_pos + 1) % SCANCODE_QUEUE_SIZE
    IN  IF next_write = q.read_pos
        THEN [q |-> q, result |-> "Err"]
        ELSE [q |-> [q EXCEPT !.buffer[q.write_pos] = scancode,
                              !.write_pos = next_write],
              result |-> "Ok"]

\* pop: [q |-> the queue afterwards, result |-> None or Some(byte)]
ScancodeQueue_pop(q) ==
    IF q.read_pos = q.write_pos
    THEN [q |-> q, result |-> None]
    ELSE [q |-> [q EXCEPT !.read_pos = (q.read_pos + 1) % SCANCODE_QUEUE_SIZE],
          result |-> Some(q.buffer[q.read_pos])]

(***************************************************************************)
(* vga_buffer.rs: Writer.  A write outside the grid panics: the model      *)
(* records it in w.panicked, and a panicked writer does nothing more.      *)
(***************************************************************************)
ScreenChar(ascii_character, color_code) == ascii_character + 256 * color_code
AsciiOf(cell) == cell % 256
ColorOf(cell) == cell \div 256

Rows == 0..BUFFER_HEIGHT - 1
Cols == 0..BUFFER_WIDTH - 1

\* buffer.chars[row][col].write(cell)
WriteCell(w, row, col, cell) ==
    IF w.panicked THEN w
    ELSE IF row \in Rows /\ col \in Cols
    THEN [w EXCEPT !.chars[row][col] = cell]
    ELSE [w EXCEPT !.panicked = TRUE]

Writer_clear_row(w, row) ==
    IF w.panicked THEN w
    ELSE IF row \in Rows
    THEN [w EXCEPT !.chars[row] = [col \in Cols |-> ScreenChar(SPACE, w.color_code)]]
    ELSE [w EXCEPT !.panicked = TRUE]

\* the body of the scroll loop, the columns of a row at once:
\* chars[row - 1][col] = chars[row][col] for col in 0..BUFFER_WIDTH
ScrollRow(chars, row) == [chars EXCEPT ![row - 1] = chars[row]]

\* a new_line that moves to the next row without looking at the height
Writer_new_line_down(w) ==
    [w EXCEPT !.row_position = w.row_position + 1, !.column_position = 0]

\* a new_line that scrolls without clearing the last row
Writer_new_line_noclear(w) ==
    IF w.row_position < BUFFER_HEIGHT - 1
    THEN [w EXCEPT !.row_position = w.row_position + 1, !.column_position = 0]
    ELSE [w EXCEPT !.chars = Fold(ScrollRow, w.chars, Range(1, BUFFER_HEIGHT)),
                   !.column_position = 0]

Writer_new_line(w) ==
    IF w.row_position < BUFFER_HEIGHT - 1
    THEN [w EXCEPT !.row_position = w.row_position + 1, !.column_position = 0]
    ELSE Let([w EXCEPT !.chars = Fold(ScrollRow, w.chars, Range(1, BUFFER_HEIGHT))],
             LAMBDA scrolled :
                 [Writer_clear_row(scrolled, BUFFER_HEIGHT - 1) EXCEPT !.column_position = 0])

\* a write_byte that does not wrap before it writes
Writer_write_byte_nowrap(w, byte) ==
    IF w.panicked THEN w
    ELSE IF byte = NL THEN Writer_new_line(w)
    ELSE IF byte = CR THEN w
    ELSE LET written == WriteCell(w, w.row_position, w.column_position,
                                  ScreenChar(byte, w.color_code))
         IN  IF written.panicked THEN written
             ELSE [written EXCEPT !.column_position = w.column_position + 1]

Writer_write_byte(w, byte) ==
    IF w.panicked THEN w
    ELSE IF byte = NL THEN Writer_new_line(w)
    ELSE IF byte = CR THEN w
    ELSE Let(IF w.column_position >= BUFFER_WIDTH THEN Writer_new_line(w) ELSE w,
             LAMBDA w1 :
                 LET row == w1.row_position
                     col == w1.column_position
                     written == WriteCell(w1, row, col, ScreenChar(byte, w1.color_code))
                 IN  IF written.panicked THEN written
                     ELSE [written EXCEPT !.column_position = w1.column_position + 1])

\* a write_string that hands every byte to write_byte as it is
WriteStringByte_literal(w, byte) == Writer_write_byte(w, byte)

\* the body of write_string's loop
WriteStringByte(w, byte) ==
    IF (32 <= byte /\ byte <= 126) \/ byte = NL
    THEN Writer_write_byte(w, byte)
    ELSE Writer_write_byte(w, REPLACEMENT_GLYPH)

Writer_write_string(w, s) == Fold(WriteStringByte, w, s)

\* a backspace that goes back to the end of the previous row from column 0
Writer_backspace_prevrow(w) ==
    IF w.panicked THEN w
    ELSE IF w.column_position > 0
    THEN LET row == w.row_position
             col == w.column_position - 1
         IN  [WriteCell(w, row, col, ScreenChar(SPACE, w.color_code))
                EXCEPT !.column_position = col]
    ELSE IF w.row_position > 0
    THEN [WriteCell(w, w.row_position - 1, BUFFER_WIDTH - 1, ScreenChar(SPACE, w.color_code))
            EXCEPT !.row_position = w.row_position - 1,
                   !.column_position = BUFFER_WIDTH - 1]
    ELSE w

Writer_backspace(w) ==
    IF w.panicked THEN w
    ELSE IF w.column_position > 0
    THEN LET row == w.row_position
             col == w.column_position - 1
         IN  [WriteCell(w, row, col, ScreenChar(SPACE, w.color_code))
                EXCEPT !.column_position = col]
    ELSE w

\* a clear_screen that leaves the cursor where it is
Writer_clear_screen_keepcursor(w) == Fold(Writer_clear_row, w, Range(0, BUFFER_HEIGHT))

Writer_clear_screen(w) ==
    Let(Fold(Writer_clear_row, w, Range(0, BUFFER_HEIGHT)),
        LAMBDA cleared : IF cleared.panicked THEN cleared
                         ELSE [cleared EXCEPT !.column_position = 0, !.row_position = 0])

\* print!/println!: _print locks WRITER and write_fmt hands each piece to write_string
print(w, s) == Writer_write_string(w, s)
println(w, s) == Writer_write_string(w, s \o <<NL>>)

(***************************************************************************)
(* Display memory at 0xb8000 when the kernel starts: the Writer does not   *)
(* initialise it, so its content is whatever the firmware and bootloader   *)
(* left there.  Two contents are considered: a firmware-cleared screen     *)
(* (spaces in attribute 0x07) and a screen of text, row r full of the      *)
(* letter chr(65 + r).                                                     *)
(***************************************************************************)
BootScreens ==
    { [row \in Rows |-> [col \in Cols |-> ScreenChar(SPACE, 7)]],
      [row \in Rows |-> [col \in Cols |-> ScreenChar(65 + row, 7)]] }

\* lazy_static WRITER
Writer_init(screen) ==
    [column_position |-> 0, row_position |-> 0, color_code |-> WHITE_ON_BLACK,
     chars |-> screen, panicked |-> FALSE]

(***************************************************************************)
(* String literals of the source, as byte sequences                        *)
(***************************************************************************)
STR_QUEUE_FULL ==
    <<87, 65, 82, 78, 73, 78, 71, 58, 32, 115, 99, 97, 110, 99, 111, 100, 101, 32, 113, 117, 101, 117, 101, 32, 102, 117, 108, 108, 59, 32, 100, 114, 111, 112, 112, 105, 110, 103, 32, 107, 101, 121, 98, 111, 97, 114, 100, 32, 105, 110, 112, 117, 116>>  \* 'WARNING: scancode queue full; dropping keyboard input'
STR_PROMPT ==
    <<62, 32>>  \* '> '
STR_BUFFER_FULL ==
    <<10, 91, 98, 117, 102, 102, 101, 114, 32, 102, 117, 108, 108, 93>>  \* '\\n[buffer full]'
STR_UNKNOWN_COMMAND ==
    <<85, 110, 107, 110, 111, 119, 110, 32, 99, 111, 109, 109, 97, 110, 100, 58, 32>>  \* 'Unknown command: '
STR_TYPE_HELP ==
    <<46, 32, 84, 121, 112, 101, 32, 39, 104, 101, 108, 112, 39, 32, 102, 111, 114, 32, 97, 118, 97, 105, 108, 97, 98, 108, 101, 32, 99, 111, 109, 109, 97, 110, 100, 115, 46>>  \* ". Type 'help' for available commands."
STR_AVAILABLE_COMMANDS ==
    <<65, 118, 97, 105, 108, 97, 98, 108, 101, 32, 99, 111, 109, 109, 97, 110, 100, 115, 58>>  \* 'Available commands:'
STR_REBOOTING ==
    <<82, 101, 98, 111, 111, 116, 105, 110, 103, 32, 115, 121, 115, 116, 101, 109, 46, 46, 46>>  \* 'Rebooting system...'
STR_NO_HISTORY ==
    <<78, 111, 32, 99, 111, 109, 109, 97, 110, 100, 32, 104, 105, 115, 116, 111, 114, 121>>  \* 'No command history'
STR_COMMAND_HISTORY ==
    <<67, 111, 109, 109, 97, 110, 100, 32, 104, 105, 115, 116, 111, 114, 121, 58>>  \* 'Command history:'
NAME_HELP ==
    <<104, 101, 108, 112>>  \* 'help'
NAME_ECHO ==
    <<101, 99, 104, 111>>  \* 'echo'
NAME_CLEAR ==
    <<99, 108, 101, 97, 114>>  \* 'clear'
NAME_REBOOT ==
    <<114, 101, 98, 111, 111, 116>>  \* 'reboot'
NAME_HISTORY ==
    <<104, 105, 115, 116, 111, 114, 121>>  \* 'history'
HELP_HELP ==
    <<68, 105, 115, 112, 108, 97, 121, 32, 116, 104, 105, 115, 32, 104, 101, 108, 112, 32, 109, 101, 115, 115, 97, 103, 101>>  \* 'Display this help message'
HELP_ECHO ==
    <<69, 99, 104, 111, 32, 97, 114, 103, 117, 109, 101, 110, 116, 115, 32, 116, 111, 32, 116, 104, 101, 32, 115, 99, 114, 101, 101, 110>>  \* 'Echo arguments to the screen'
HELP_CLEAR ==
    <<67, 108, 101, 97, 114, 32, 116, 104, 101, 32, 115, 99, 114, 101, 101, 110>>  \* 'Clear the screen'
HELP_REBOOT ==
    <<82, 101, 98, 111, 111, 116, 32, 116, 104, 101, 32, 115, 121, 115, 116, 101, 109>>  \* 'Reboot the system'
HELP_HISTORY ==
    <<83, 104, 111, 119, 32, 99, 111, 109, 109, 97, 110, 100, 32, 104, 105, 115, 116, 111, 114, 121>>  \* 'Show command history'
BOOT_STARTING ==
    <<68, 69, 66, 85, 71, 58, 32, 83, 116, 97, 114, 116, 105, 110, 103, 32, 68, 120, 79, 83, 46, 46, 46>>  \* 'DEBUG: Starting DxOS...'
BOOT_LOADING_IDT ==
    <<68, 69, 66, 85, 71, 58, 32, 76, 111, 97, 100, 105, 110, 103, 32, 73, 68, 84, 32, 105, 110, 116, 111, 32, 67, 80, 85, 46, 46, 46>>  \* 'DEBUG: Loading IDT into CPU...'
BOOT_IDT_LOADED ==
    <<68, 69, 66, 85, 71, 58, 32, 73, 68, 84, 32, 108, 111, 97, 100, 101, 100>>  \* 'DEBUG: IDT loaded'
BOOT_INIT_PICS ==
    <<68, 69, 66, 85, 71, 58, 32, 73, 110, 105, 116, 105, 97, 108, 105, 122, 105, 110, 103, 32, 80, 73, 67, 115, 46, 46, 46>>  \* 'DEBUG: Initializing PICs...'
BOOT_PICS_DONE ==
    <<68, 69, 66, 85, 71, 58, 32, 80, 73, 67, 115, 32, 105, 110, 105, 116, 105, 97, 108, 105, 122, 101, 100>>  \* 'DEBUG: PICs initialized'
BOOT_NO_STI ==
    <<68, 69, 66, 85, 71, 58, 32, 73, 110, 116, 101, 114, 114, 117, 112, 116, 115, 32, 78, 79, 84, 32, 101, 110, 97, 98, 108, 101, 100, 32, 40, 110, 111, 32, 115, 116, 105, 41, 32, 45, 32, 117, 115, 105, 110, 103, 32, 112, 117, 114, 101, 32, 112, 111, 108, 108, 105, 110, 103, 32, 109, 111, 100, 101>>  \* 'DEBUG: Interrupts NOT enabled (no sti) - using pure polling mode'
BOOT_WELCOME ==
    <<87, 101, 108, 99, 111, 109, 101, 32, 116, 111, 32, 68, 120, 79, 83, 32, 67, 76, 73, 32, 118, 48, 46, 50>>  \* 'Welcome to DxOS CLI v0.2'
BOOT_TYPE_HELP ==
    <<84, 121, 112, 101, 32, 39, 104, 101, 108, 112, 39, 32, 102, 111, 114, 32, 97, 118, 97, 105, 108, 97, 98, 108, 101, 32, 99, 111, 109, 109, 97, 110, 100, 115, 46>>  \* "Type 'help' for available commands."
BOOT_USE_ARROWS ==
    <<85, 115, 101, 32, 85, 80, 47, 68, 79, 87, 78, 32, 97, 114, 114, 111, 119, 115, 32, 102, 111, 114, 32, 99, 111, 109, 109, 97, 110, 100, 32, 104, 105, 115, 116, 111, 114, 121, 46>>  \* 'Use UP/DOWN arrows for command history.'
LINE_ECHO_HI_THERE ==
    <<101, 99, 104, 111, 32, 104, 105, 32, 116, 104, 101, 114, 101>>  \* 'echo hi there'
LINE_FOO ==
    <<102, 111, 111>>  \* 'foo'
LINE_HELP_CAPITAL ==
    <<72, 101, 108, 112>>  \* 'Help'
LINE_ECH ==
    <<101, 99, 104>>  \* 'ech'
LINE_HELPX ==
    <<104, 101, 108, 112, 120>>  \* 'helpx'
LINE_FOO_BAR ==
    <<32, 32, 102, 111, 111, 32, 98, 97, 114>>  \* '  foo bar'
INIT_MASK_BEFORE ==
    <<68, 69, 66, 85, 71, 58, 32, 80, 73, 67, 49, 32, 109, 97, 115, 107, 32, 66, 69, 70, 79, 82, 69, 32, 117, 110, 109, 97, 115, 107, 58, 32>>  \* 'DEBUG: PIC1 mask BEFORE unmask: '
INIT_WRITING_MASK ==
    <<68, 69, 66, 85, 71, 58, 32, 87, 114, 105, 116, 105, 110, 103, 32, 110, 101, 119, 32, 109, 97, 115, 107, 58, 32>>  \* 'DEBUG: Writing new mask: '
INIT_MASK_AFTER ==
    <<68, 69, 66, 85, 71, 58, 32, 80, 73, 67, 49, 32, 109, 97, 115, 107, 32, 65, 70, 84, 69, 82, 32, 117, 110, 109, 97, 115, 107, 58, 32>>  \* 'DEBUG: PIC1 mask AFTER unmask: '
INIT_TIMER_BIT ==
    <<68, 69, 66, 85, 71, 58, 32, 84, 105, 109, 101, 114, 32, 40, 98, 105, 116, 32, 48, 41, 58, 32>>  \* 'DEBUG: Timer (bit 0): '
INIT_KEYBOARD_BIT ==
    <<44, 32, 75, 101, 121, 98, 111, 97, 114, 100, 32, 40, 98, 105, 116, 32, 49, 41, 58, 32>>  \* ', Keyboard (bit 1): '
STR_UNMASKED ==
    <<85, 78, 77, 65, 83, 75, 69, 68>>  \* 'UNMASKED'
STR_MASKED ==
    <<77, 65, 83, 75, 69, 68>>  \* 'MASKED'
INIT_CALLING_STI ==
    <<68, 69, 66, 85, 71, 58, 32, 67, 97, 108, 108, 105, 110, 103, 32, 115, 116, 105, 46, 46, 46>>  \* 'DEBUG: Calling sti...'
INIT_STI_CALLED ==
    <<68, 69, 66, 85, 71, 58, 32, 115, 116, 105, 32, 99, 97, 108, 108, 101, 100, 44, 32, 105, 110, 116, 101, 114, 114, 117, 112, 116, 115, 32, 115, 104, 111, 117, 108, 100, 32, 98, 101, 32, 101, 110, 97, 98, 108, 101, 100>>  \* 'DEBUG: sti called, interrupts should be enabled'
INIT_ENABLED ==
    <<68, 69, 66, 85, 71, 58, 32, 73, 110, 116, 101, 114, 114, 117, 112, 116, 115, 32, 101, 110, 97, 98, 108, 101, 100, 63, 32>>  \* 'DEBUG: Interrupts enabled? '
STR_TRUE ==
    <<116, 114, 117, 101>>  \* 'true'
STR_FALSE ==
    <<102, 97, 108, 115, 101>>  \* 'false'
STR_0X ==
    <<48, 120>>  \* '0x'
STR_HEX_DIGITS ==
    <<48, 49, 50, 51, 52, 53, 54, 55, 56, 57, 97, 98, 99, 100, 101, 102>>  \* '0123456789abcdef'
MSG_INT ==
    <<73, 78, 84, 33>>  \* 'INT!'
MSG_TIMER ==
    <<84, 73, 77, 69, 82, 33>>  \* 'TIMER!'
MSG_BP ==
    <<66, 80, 33>>  \* 'BP!'
EXC_DOUBLE_FAULT ==
    <<69, 88, 67, 69, 80, 84, 73, 79, 78, 58, 32, 68, 79, 85, 66, 76, 69, 32, 70, 65, 85, 76, 84, 32, 45, 32, 104, 97, 108, 116, 105, 110, 103>>  \* 'EXCEPTION: DOUBLE FAULT - halting'
EXC_PAGE_FAULT ==
    <<69, 88, 67, 69, 80, 84, 73, 79, 78, 58, 32, 80, 65, 71, 69, 32, 70, 65, 85, 76, 84>>  \* 'EXCEPTION: PAGE FAULT'
EXC_ACCESSED_ADDRESS ==
    <<65, 99, 99, 101, 115, 115, 101, 100, 32, 65, 100, 100, 114, 101, 115, 115, 58, 32>>  \* 'Accessed Address: '
EXC_ERROR_CODE ==
    <<69, 114, 114, 111, 114, 32, 67, 111, 100, 101, 58, 32>>  \* 'Error Code: '
EXC_GENERAL_PROTECTION_FAULT ==
    <<69, 88, 67, 69, 80, 84, 73, 79, 78, 58, 32, 71, 69, 78, 69, 82, 65, 76, 32, 80, 82, 79, 84, 69, 67, 84, 73, 79, 78, 32, 70, 65, 85, 76, 84>>  \* 'EXCEPTION: GENERAL PROTECTION FAULT'

(***************************************************************************)
(* core::str and core::fmt conversions used by the shell                   *)
(***************************************************************************)
\* `c as u8`: a char's code point truncated to its low byte
CharAsU8(c) == c % 256

\* Display for char: the UTF-8 encoding of the code point
CharUtf8(c) ==
    IF c < 128 THEN <<c>>
    ELSE IF c < 2048 THEN <<192 + (c \div 64), 128 + (c % 64)>>
    ELSE IF c < 65536 THEN <<224 + (c \div 4096), 128 + ((c \div 64) % 64), 128 + (c % 64)>>
    ELSE <<240 + (c \div 262144), 128 + ((c \div 4096) % 64),
           128 + ((c \div 64) % 64), 128 + (c % 64)>>

\* the UTF-8 validator started: no continuation byte awaited
Utf8Start == [ok |-> TRUE, need |-> 0, lo |-> 128, hi |-> 191]

\* the validator awaiting `need` continuation bytes, the next one in lo..hi
Utf8Await(need, lo, hi) == [ok |-> TRUE, need |-> need, lo |-> lo, hi |-> hi]

\* one byte through the UTF-8 validator
Utf8Step(st, b) ==
    IF ~st.ok THEN st
    ELSE IF st.need > 0
    THEN IF st.lo <= b /\ b <= st.hi
         THEN Utf8Await(st.need - 1, 128, 191)
         ELSE [st EXCEPT !.ok = FALSE]
    ELSE IF b < 128 THEN st
    ELSE IF 194 <= b /\ b <= 223 THEN Utf8Await(1, 128, 191)
    ELSE IF b = 224 THEN Utf8Await(2, 160, 191)
    ELSE IF b = 237 THEN Utf8Await(2, 128, 159)
    ELSE IF 225 <= b /\ b <= 239 THEN Utf8Await(2, 128, 191)
    ELSE IF b = 240 THEN Utf8Await(3, 144, 191)
    ELSE IF b = 244 THEN Utf8Await(3, 128, 143)
    ELSE IF 241 <= b /\ b <= 243 THEN Utf8Await(3, 128, 191)
    ELSE [st EXCEPT !.ok = FALSE]

\* str::from_utf8(bytes).is_ok()
from_utf8_ok(bytes) ==
    Let(Fold(Utf8Step, Utf8Start, bytes), LAMBDA st : st.ok /\ st.need = 0)

\* Display for usize: decimal digits
RECURSIVE Decimal(_)
Decimal(n) == IF n < 10 THEN <<48 + n>> ELSE Decimal(n \div 10) \o <<48 + (n % 10)>>

\* {:<width}: left-aligned, padded with spaces to the width
PadLeftAligned(str, width) ==
    IF Len(str) >= width THEN str ELSE str \o Repeat(SPACE, width - Len(str))

(***************************************************************************)
(* shell.rs.  The shell functions are state transformers over a record s   *)
(* holding the shell statics, the writer (s.W) and the effects observed    *)
(* during one process_key call: s.out, the bytes handed to print!, in      *)
(* order; s.cmd, the line get_line returned; s.dispatched, the line handed *)
(* to execute_command; s.invoked, the command function called and its      *)
(* argument slice.                                                         *)
(***************************************************************************)
COMMANDS ==
    << [name |-> NAME_HELP,    help |-> HELP_HELP,    func |-> "cmd_help"],
       [name |-> NAME_ECHO,    help |-> HELP_ECHO,    func |-> "cmd_echo"],
       [name |-> NAME_CLEAR,   help |-> HELP_CLEAR,   func |-> "cmd_clear"],
       [name |-> NAME_REBOOT,  help |-> HELP_REBOOT,  func |-> "cmd_reboot"],
       [name |-> NAME_HISTORY, help |-> HELP_HISTORY, func |-> "cmd_history"] >>

\* print! / println! from the shell: the writer changes and the bytes are observed
sh_print(s, str) == [s EXCEPT !.W = print(@, str), !.out = @ \o str]
sh_println(s, str) == [s EXCEPT !.W = println(@, str), !.out = @ \o str \o <<NL>>]

\* crate::vga_buffer::backspace() / clear_screen() called from the shell
sh_backspace(s) == [s EXCEPT !.W = Writer_backspace(@)]
sh_clear_screen(s) == [s EXCEPT !.W = Writer_clear_screen(@)]

prompt(s) == sh_print(s, STR_PROMPT)

\* a find_command that compares the names without regard to case
find_command_nocase(name) ==
    LET lower == [i \in 1..Len(name) |->
                     IF 65 <= name[i] /\ name[i] <= 90 THEN name[i] + 32 ELSE name[i]]
    IN  IF \E i \in 1..Len(COMMANDS) : COMMANDS[i].name = lower
        THEN Some(CHOOSE i \in 1..Len(COMMANDS) : COMMANDS[i].name = lower)
        ELSE None

\* COMMANDS.iter().find(|cmd| cmd.name == name): None or Some(index into COMMANDS)
find_command(name) ==
    IF \E i \in 1..Len(COMMANDS) : COMMANDS[i].name = name
    THEN Some(CHOOSE i \in 1..Len(COMMANDS) :
                  /\ COMMANDS[i].name = name
                  /\ \A j \in 1..i - 1 : COMMANDS[j].name # name)
    ELSE None

IsBlank(b) == b = SPACE \/ b = TAB

\* the skip-whitespace loop: first index >= i (zero-based) that holds no blank,
\* or the length
SkipBlanks(bytes, i) ==
    CHOOSE j \in i..Len(bytes) :
        /\ \A k \in i..j - 1 : IsBlank(bytes[k + 1])
        /\ (j < Len(bytes) => ~IsBlank(bytes[j + 1]))

\* the token loop: first index >= i (zero-based) that holds a blank, or the length
SkipToken(bytes, i) ==
    CHOOSE j \in i..Len(bytes) :
        /\ \A k \in i..j - 1 : ~IsBlank(bytes[k + 1])
        /\ (j < Len(bytes) => IsBlank(bytes[j + 1]))

\* the outer loop of split_whitespace; out is indexed 0..7
RECURSIVE SplitLoop(_, _, _, _)
SplitLoop(bytes, i, idx, out) ==
    IF i < Len(bytes) /\ idx < MAX_TOKENS
    THEN Let(SkipBlanks(bytes, i), LAMBDA start :
             IF start >= Len(bytes)
             THEN out
             ELSE Let(SkipToken(bytes, start), LAMBDA end :
                      SplitLoop(bytes, end, idx + 1,
                                [out EXCEPT ![idx] = SubSeq(bytes, start + 1, end)])))
    ELSE out

\* split_whitespace: always an array of 8 strings, the unused ones empty
split_whitespace(str) == SplitLoop(str, 0, 0, [k \in 0..MAX_TOKENS - 1 |-> <<>>])

\* the body of the help loop: one line for a command of the table
HelpLine(s, cmd) ==
    sh_println(s, <<SPACE, SPACE>> \o PadLeftAligned(cmd.name, HELP_NAME_WIDTH)
                  \o <<SPACE, 45, SPACE>> \o cmd.help)

cmd_help(s, args) == Fold(HelpLine, sh_println(s, STR_AVAILABLE_COMMANDS), COMMANDS)

\* the body of the echo loop; args is a one-based sequence, i the enumerate index
EchoArg(s, args, i) ==
    sh_print(IF i > 0 THEN sh_print(s, <<SPACE>>) ELSE s, args[i + 1])

cmd_echo(s, args) ==
    sh_println(Fold(LAMBDA t, i : EchoArg(t, args, i), s, Range(0, Len(args))), <<>>)

cmd_clear(s, args) == sh_clear_screen(s)

\* reset_cpu() writes the reset command and halts in a loop: it never returns
cmd_reboot(s, args) == [sh_println(s, STR_REBOOTING) EXCEPT !.halted = TRUE]

\* the body of the listing loop of cmd_history
HistoryLine(s, start, i) ==
    LET idx == (start + i) % HISTORY_SIZE
        len == s.HISTORY_LENS[idx]
    IN  Let(Slice(s.HISTORY[idx], len), LAMBDA entry :
            IF from_utf8_ok(entry)
            THEN sh_println(s, <<SPACE, SPACE>> \o Decimal(i + 1) \o <<SPACE>> \o entry)
            ELSE s)

cmd_history(s, args) ==
    IF s.HISTORY_COUNT = 0
    THEN sh_println(s, STR_NO_HISTORY)
    ELSE LET start == IF s.HISTORY_COUNT < HISTORY_SIZE THEN 0 ELSE s.HISTORY_INDEX
         IN  Fold(LAMBDA t, i : HistoryLine(t, start, i),
                  sh_println(s, STR_COMMAND_HISTORY), Range(0, s.HISTORY_COUNT))

\* (cmd.func)(args)
CallCommand(s, func, args) ==
    CASE func = "cmd_help" -> cmd_help(s, args)
      [] func = "cmd_echo" -> cmd_echo(s, args)
      [] func = "cmd_clear" -> cmd_clear(s, args)
      [] func = "cmd_reboot" -> cmd_reboot(s, args)
      [] func = "cmd_history" -> cmd_history(s, args)

execute_command(s0, line) ==
    Let(split_whitespace(line), LAMBDA parts :
    Let([s0 EXCEPT !.dispatched = Some(line)], LAMBDA s :
        IF parts[0] = <<>>
        THEN s
        ELSE LET cmd_name == parts[0]
                 args == [k \in 1..MAX_TOKENS - 1 |-> parts[k]]
                 found == find_command(cmd_name)
             IN  IF found # None
                 THEN Let([s EXCEPT !.invoked = Some([func |-> COMMANDS[found[1]].func,
                                                      args |-> args])],
                          LAMBDA called : CallCommand(called, COMMANDS[found[1]].func, args))
                 ELSE sh_println(s, STR_UNKNOWN_COMMAND \o cmd_name \o STR_TYPE_HELP)))

CurrentLine(s) == Slice(s.LINE_BUF, s.LINE_LEN)

\* a push_char that accepts one character fewer
push_char_short(s, c) ==
    IF s.LINE_LEN < LINE_BUF_LEN - 2
    THEN sh_print([s EXCEPT !.LINE_BUF[s.LINE_LEN] = CharAsU8(c),
                            !.LINE_LEN = s.LINE_LEN + 1],
                  CharUtf8(c))
    ELSE prompt([sh_println(s, STR_BUFFER_FULL) EXCEPT !.LINE_LEN = 0])

\* a push_char that reports the overflow and keeps the line
push_char_nodiscard(s, c) ==
    IF s.LINE_LEN < LINE_BUF_LEN - 1
    THEN sh_print([s EXCEPT !.LINE_BUF[s.LINE_LEN] = CharAsU8(c),
                            !.LINE_LEN = s.LINE_LEN + 1],
                  CharUtf8(c))
    ELSE prompt(sh_println(s, STR_BUFFER_FULL))

push_char(s, c) ==
    IF s.LINE_LEN < LINE_BUF_LEN - 1
    THEN sh_print([s EXCEPT !.LINE_BUF[s.LINE_LEN] = CharAsU8(c),
                            !.LINE_LEN = s.LINE_LEN + 1],
                  CharUtf8(c))
    ELSE prompt([sh_println(s, STR_BUFFER_FULL) EXCEPT !.LINE_LEN = 0])

backspace(s) ==
    IF s.LINE_LEN > 0
    THEN sh_backspace([s EXCEPT !.LINE_LEN = s.LINE_LEN - 1])
    ELSE s

\* get_line: [s |-> the state afterwards, line |-> the returned string]
get_line(s) ==
    Let(CurrentLine(s), LAMBDA slice :
        [s |-> [s EXCEPT !.LINE_LEN = 0, !.HISTORY_BROWSE_INDEX = None],
         line |-> IF from_utf8_ok(slice) THEN slice ELSE <<>>])

\* array[..len].copy_from_slice(&bytes[..len])
CopyInto(array, bytes, len) ==
    [k \in DOMAIN array |-> IF k < len THEN bytes[k + 1] ELSE array[k]]

\* an add_to_history that does not advance the write index
add_to_history_stuck(s, line) ==
    IF line = <<>>
    THEN s
    ELSE LET len == Min(Len(line), LINE_BUF_LEN)
         IN  [s EXCEPT !.HISTORY[s.HISTORY_INDEX] = CopyInto(@, line, len),
                       !.HISTORY_LENS[s.HISTORY_INDEX] = len,
                       !.HISTORY_COUNT = IF @ < HISTORY_SIZE THEN @ + 1 ELSE @]

add_to_history(s, line) ==
    IF line = <<>>
    THEN s
    ELSE LET len == Min(Len(line), LINE_BUF_LEN)
         IN  [s EXCEPT !.HISTORY[s.HISTORY_INDEX] = CopyInto(@, line, len),
                       !.HISTORY_LENS[s.HISTORY_INDEX] = len,
                       !.HISTORY_INDEX = (s.HISTORY_INDEX + 1) % HISTORY_SIZE,
                       !.HISTORY_COUNT = IF @ < HISTORY_SIZE THEN @ + 1 ELSE @]

\* for _ in 0..LINE_LEN { backspace() }; LINE_LEN = 0
clear_current_line(s) ==
    [Fold(LAMBDA t, i : sh_backspace(t), s, Range(0, s.LINE_LEN)) EXCEPT !.LINE_LEN = 0]

load_history_line(s0, idx) ==
    Let(clear_current_line(s0), LAMBDA s :
    Let(Slice(s.HISTORY[idx], s.HISTORY_LENS[idx]), LAMBDA entry :
    Let([s EXCEPT !.LINE_BUF = CopyInto(@, entry, Len(entry)), !.LINE_LEN = Len(entry)],
        LAMBDA loaded :
            IF from_utf8_ok(entry) THEN sh_print(loaded, entry) ELSE loaded)))

\* a history_prev that starts browsing at the write index
history_prev_at_write_index(s) ==
    IF s.HISTORY_COUNT = 0
    THEN s
    ELSE load_history_line([s EXCEPT !.HISTORY_BROWSE_INDEX = Some(s.HISTORY_INDEX)],
                           s.HISTORY_INDEX)

history_prev(s) ==
    IF s.HISTORY_COUNT = 0
    THEN s
    ELSE IF s.HISTORY_BROWSE_INDEX = None
    THEN LET browse_idx == IF s.HISTORY_COUNT < HISTORY_SIZE
                           THEN s.HISTORY_COUNT - 1
                           ELSE (s.HISTORY_INDEX + HISTORY_SIZE - 1) % HISTORY_SIZE
         IN  load_history_line([s EXCEPT !.HISTORY_BROWSE_INDEX = Some(browse_idx)],
                               browse_idx)
    ELSE LET idx == s.HISTORY_BROWSE_INDEX[1]
         IN  IF s.HISTORY_COUNT < HISTORY_SIZE
             THEN IF idx > 0
                  THEN load_history_line([s EXCEPT !.HISTORY_BROWSE_INDEX = Some(idx - 1)],
                                         idx - 1)
                  ELSE s
             ELSE LET browse_idx == (idx + HISTORY_SIZE - 1) % HISTORY_SIZE
                  IN  load_history_line(
                          [s EXCEPT !.HISTORY_BROWSE_INDEX = Some(browse_idx)], browse_idx)

\* a history_next that keeps the recalled line when it leaves browse mode
history_next_keep(s) ==
    IF s.HISTORY_BROWSE_INDEX = None
    THEN s
    ELSE LET idx == s.HISTORY_BROWSE_INDEX[1]
             new_idx == (idx + 1) % HISTORY_SIZE
             more == IF s.HISTORY_COUNT < HISTORY_SIZE
                     THEN idx + 1 < s.HISTORY_COUNT
                     ELSE new_idx # s.HISTORY_INDEX
         IN  IF more
             THEN load_history_line([s EXCEPT !.HISTORY_BROWSE_INDEX = Some(new_idx)],
                                    new_idx)
             ELSE [s EXCEPT !.HISTORY_BROWSE_INDEX = None]

history_next(s) ==
    IF s.HISTORY_BROWSE_INDEX = None
    THEN s
    ELSE LET idx == s.HISTORY_BROWSE_INDEX[1]
         IN  IF s.HISTORY_COUNT < HISTORY_SIZE
             THEN IF idx + 1 < s.HISTORY_COUNT
                  THEN load_history_line(
                           [s EXCEPT !.HISTORY_BROWSE_INDEX = Some(idx + 1)], idx + 1)
                  ELSE clear_current_line([s EXCEPT !.HISTORY_BROWSE_INDEX = None])
             ELSE LET new_idx == (idx + 1) % HISTORY_SIZE
                  IN  IF new_idx # s.HISTORY_INDEX
                      THEN load_history_line(
                               [s EXCEPT !.HISTORY_BROWSE_INDEX = Some(new_idx)], new_idx)
                      ELSE clear_current_line([s EXCEPT !.HISTORY_BROWSE_INDEX = None])

\* Keys: DecodedKey::Unicode(c) and DecodedKey::RawKey(code)
Unicode(c) == [kind |-> "Unicode", c |-> c]
RawKey(code) == [kind |-> "RawKey", code |-> code]
KEY_ENTER == Unicode(NL)
KEY_BACKSPACE == Unicode(BS)
KEY_DELETE == Unicode(DEL)
KEY_UP == RawKey("ArrowUp")
KEY_DOWN == RawKey("ArrowDown")
KEY_HOME == RawKey("Home")

\* a '\n' arm that records and dispatches the line without testing it for empty
process_enter_nocheck(s0) ==
    Let(get_line(s0), LAMBDA got :
    Let(sh_println([got.s EXCEPT !.cmd = Some(got.line)], <<>>), LAMBDA s1 :
    Let(Let(add_to_history(s1, got.line), LAMBDA s2 : execute_command(s2, got.line)),
        LAMBDA s3 : IF s3.halted THEN s3 ELSE prompt(s3))))

\* the '\n' arm of process_key; prompt() is not reached when reset_cpu() was entered
process_enter(s0) ==
    Let(get_line(s0), LAMBDA got :
    Let(sh_println([got.s EXCEPT !.cmd = Some(got.line)], <<>>), LAMBDA s1 :
    Let(IF got.line # <<>>
        THEN Let(add_to_history(s1, got.line), LAMBDA s2 : execute_command(s2, got.line))
        ELSE s1,
        LAMBDA s3 : IF s3.halted THEN s3 ELSE prompt(s3))))

process_key(s, key) ==
    IF key.kind = "Unicode"
    THEN IF key.c = NL THEN process_enter(s)
         ELSE IF key.c = BS \/ key.c = DEL THEN backspace(s)
         ELSE push_char(s, key.c)
    ELSE IF key.code = "ArrowUp" THEN history_prev(s)
         ELSE IF key.code = "ArrowDown" THEN history_next(s)
         ELSE s

(***************************************************************************)
(* The interrupt controllers and the kernel entry (interrupts.rs, main.rs) *)
(***************************************************************************)
\* mask & (1 << bit) != 0
BitSet(mask, bit) == (mask \div (2 ^ bit)) % 2 = 1

\* mask & !(1 << bit)
ClearBit(mask, bit) == IF BitSet(mask, bit) THEN mask - 2 ^ bit ELSE mask

\* {:#04x} of a u8
Hex2(n) == STR_0X \o <<STR_HEX_DIGITS[(n \div 16) + 1], STR_HEX_DIGITS[(n % 16) + 1]>>

\* the request lines of the master controller and of the slave behind line 2
MasterLines == 0..7
SlaveLines == 8..15
CascadeLine == 2

\* ChainedPics::new: the controllers as the firmware left them, `masks` being
\* the interrupt masks of the master and the slave (a set bit masks a line)
ChainedPics_new(masks) ==
    [remapped |-> FALSE, mask1 |-> masks[1], mask2 |-> masks[2], irr |-> {}, isr |-> {}]

\* ChainedPics::initialize: the controllers are given the offsets PIC_1_OFFSET
\* and PIC_2_OFFSET; the masks are saved before and restored after
ChainedPics_initialize(pics) == [pics EXCEPT !.remapped = TRUE]

\* the controller passes a request of this line on to the CPU
Unmasked(pics, line) ==
    IF line \in MasterLines
    THEN ~BitSet(pics.mask1, line)
    ELSE ~BitSet(pics.mask2, line - 8) /\ ~BitSet(pics.mask1, CascadeLine)

\* the vector the remapped controllers deliver for a line
VectorOf(line) ==
    IF line \in MasterLines THEN PIC_1_OFFSET + line ELSE PIC_2_OFFSET + (line - 8)

\* the end-of-interrupt command to one controller: its in-service line of
\* the highest priority is no longer in service
EndOfInterrupt(pics, lines) ==
    IF pics.isr \cap lines = {} THEN pics
    ELSE [pics EXCEPT !.isr = @ \ {CHOOSE l \in pics.isr \cap lines :
                                       \A k \in pics.isr \cap lines : l <= k}]

\* ChainedPics::notify_end_of_interrupt(id):
\* [pics |-> the controllers afterwards, acked |-> the controllers that got the command]
notify_end_of_interrupt(pics, id) ==
    IF id >= PIC_2_OFFSET /\ id < PIC_2_OFFSET + 8
    THEN [pics |-> EndOfInterrupt(EndOfInterrupt(pics, SlaveLines), MasterLines),
          acked |-> <<"slave", "master">>]
    ELSE IF id >= PIC_1_OFFSET /\ id < PIC_1_OFFSET + 8
    THEN [pics |-> EndOfInterrupt(pics, MasterLines), acked |-> <<"master">>]
    ELSE [pics |-> pics, acked |-> <<>>]

\* the handler the IDT holds for a vector of the controllers
IDT(vector) ==
    IF vector = PIC_1_OFFSET THEN "timer"
    ELSE IF vector = PIC_1_OFFSET + 1 THEN "keyboard"
    ELSE "spurious"

\* the handlers' writes into display memory, past the WRITER lock:
\* vga_buffer[offset + 2 * i] = msg[i], vga_buffer[offset + 2 * i + 1] = color
DirectWrite(w, row, msg, color) ==
    [w EXCEPT !.chars[row] =
        [col \in Cols |-> IF col < Len(msg) THEN ScreenChar(msg[col + 1], color)
                          ELSE @[col]]]

\* Keyboard::add_byte and process_keyevent for the scancodes of the model:
\* a key pressed gives its character, a key released gives nothing
Decode(scancode) ==
    IF scancode = SC_A THEN Some(Unicode(97))
    ELSE IF scancode = SC_ENTER THEN Some(KEY_ENTER)
    ELSE None

\* The statements of the kernel entry, in program order.  A print is the
\* text of a print! or println! (fmt names the value formatted behind it).
Stmt(op) == [op |-> op, fmt |-> "", text |-> <<>>]
PrintStmt(text) == [op |-> "print", fmt |-> "", text |-> text]
PrintlnStmt(text) == [op |-> "print", fmt |-> "", text |-> text \o <<NL>>]
PrintlnFmt(text, fmt) == [op |-> "print", fmt |-> fmt, text |-> text]

\* interrupts::init
init ==
    << PrintlnStmt(BOOT_LOADING_IDT), Stmt("load_idt"), PrintlnStmt(BOOT_IDT_LOADED),
       PrintlnStmt(BOOT_INIT_PICS), Stmt("pics_initialize"), PrintlnStmt(BOOT_PICS_DONE),
       Stmt("read_mask"), PrintlnFmt(INIT_MASK_BEFORE, "mask_before"),
       PrintlnFmt(INIT_WRITING_MASK, "new_mask"), Stmt("write_mask"),
       Stmt("read_mask_after"), PrintlnFmt(INIT_MASK_AFTER, "mask_after"),
       PrintlnFmt(INIT_TIMER_BIT, "bits"), PrintlnStmt(INIT_CALLING_STI), Stmt("sti"),
       PrintlnStmt(INIT_STI_CALLED), Stmt("are_enabled"),
       PrintlnFmt(INIT_ENABLED, "enabled") >>

\* an init_without_sti that ends with sti
init_without_sti_enabling ==
    << PrintlnStmt(BOOT_LOADING_IDT), Stmt("load_idt"), PrintlnStmt(BOOT_IDT_LOADED),
       PrintlnStmt(BOOT_INIT_PICS), Stmt("pics_initialize"), PrintlnStmt(BOOT_PICS_DONE),
       PrintlnStmt(BOOT_NO_STI), Stmt("sti") >>

\* interrupts::init_without_sti
init_without_sti ==
    << PrintlnStmt(BOOT_LOADING_IDT), Stmt("load_idt"), PrintlnStmt(BOOT_IDT_LOADED),
       PrintlnStmt(BOOT_INIT_PICS), Stmt("pics_initialize"), PrintlnStmt(BOOT_PICS_DONE),
       PrintlnStmt(BOOT_NO_STI) >>

\* main.rs _start: as the source has it (mode "polling"), and with
\* interrupts::init in the place of init_without_sti (mode "armed")
Program(mode) ==
    <<PrintlnStmt(BOOT_STARTING), Stmt("gdt_init")>>
    \o (IF mode = "armed" THEN init ELSE init_without_sti)
    \o <<PrintlnStmt(BOOT_WELCOME), PrintlnStmt(BOOT_TYPE_HELP),
         PrintlnStmt(BOOT_USE_ARROWS), PrintStmt(STR_PROMPT), Stmt("get_key")>>

\* the text a print statement writes, given the local variables of init
PrintText(stmt, regs) ==
    IF stmt.fmt = "mask_before" THEN stmt.text \o Hex2(regs.mask_before) \o <<NL>>
    ELSE IF stmt.fmt = "new_mask" THEN stmt.text \o Hex2(regs.new_mask) \o <<NL>>
    ELSE IF stmt.fmt = "mask_after" THEN stmt.text \o Hex2(regs.mask_after) \o <<NL>>
    ELSE IF stmt.fmt = "bits"
    THEN stmt.text
         \o (IF ~BitSet(regs.mask_after, 0) THEN STR_UNMASKED ELSE STR_MASKED)
         \o INIT_KEYBOARD_BIT
         \o (IF ~BitSet(regs.mask_after, 1) THEN STR_UNMASKED ELSE STR_MASKED)
         \o <<NL>>
    ELSE IF stmt.fmt = "enabled"
    THEN stmt.text \o (IF regs.enabled THEN STR_TRUE ELSE STR_FALSE) \o <<NL>>
    ELSE stmt.text

\* the interrupt masks the firmware may have left in the two controllers
PriorMasks == { <<255, 255>>, <<184, 0>> }

NoLocks ==
    [WRITER |-> "free", SCANCODE_QUEUE |-> "free", KEYBOARD_DECODER |-> "free",
     PICS |-> "free"]

\* the local variables of _start, init and get_key
MainAt(mode, pc) ==
    [mode |-> mode, pc |-> pc, phase |-> "run", mask_before |-> 0, new_mask |-> 0,
     mask_after |-> 0, enabled |-> FALSE, key |-> None]

(***************************************************************************)
(* Initial states                                                          *)
(***************************************************************************)
NoObs ==
    [op |-> "init", arg |-> None, result |-> None, out |-> <<>>, cmd |-> None,
     dispatched |-> None, invoked |-> None]

NoLog ==
    [accepted |-> <<>>, popped |-> <<>>, arrivals |-> 0, ops |-> 0, enters |-> 0,
     submitted |-> <<>>, typed |-> <<>>, fresh |-> TRUE, ups |-> 0, recall |-> "none",
     overflows |-> 0, backspaces |-> 0, ticks |-> 0, requests |-> 0,
     breakpoints |-> 0]

\* the statics as the program image holds them
StaticsInit ==
    /\ SCANCODE_QUEUE = ScancodeQueue_new
    /\ LINE_BUF = [i \in 0..LINE_BUF_LEN - 1 |-> 0]
    /\ LINE_LEN = 0
    /\ HISTORY = [h \in 0..HISTORY_SIZE - 1 |-> [i \in 0..LINE_BUF_LEN - 1 |-> 0]]
    /\ HISTORY_LENS = [h \in 0..HISTORY_SIZE - 1 |-> 0]
    /\ HISTORY_INDEX = 0
    /\ HISTORY_COUNT = 0
    /\ HISTORY_BROWSE_INDEX = None
    /\ halted = FALSE
    /\ obs = NoObs
    /\ log = NoLog

\* main.rs _start up to the main loop: the boot messages and the first prompt
BootMessages ==
    <<BOOT_STARTING, BOOT_LOADING_IDT, BOOT_IDT_LOADED, BOOT_INIT_PICS, BOOT_PICS_DONE,
      BOOT_NO_STI, BOOT_WELCOME, BOOT_TYPE_HELP, BOOT_USE_ARROWS>>

Booted(screen) ==
    Let(Fold(println, Writer_init(screen), BootMessages), LAMBDA w : print(w, STR_PROMPT))

\* the machine as _start finds it: interrupts disabled, the controllers not
\* yet remapped, no byte in the keyboard controller
PowerOn(mode, masks) ==
    /\ idt_loaded = FALSE
    /\ interrupts_enabled = FALSE
    /\ PICS = ChainedPics_new(masks)
    /\ keyboard_port = [full |-> FALSE, data |-> 0]
    /\ locks = NoLocks
    /\ main = MainAt(mode, 1)
    /\ handler = None
    /\ INTERRUPT_COUNT = 0
    /\ TIMER_COUNT = 0

\* the machine when _start has reached its main loop in polling mode, every
\* line masked: the display, queue and shell specifications leave it so
AtMainLoop ==
    /\ idt_loaded = TRUE
    /\ interrupts_enabled = FALSE
    /\ PICS = ChainedPics_initialize(ChainedPics_new(<<255, 255>>))
    /\ keyboard_port = [full |-> FALSE, data |-> 0]
    /\ locks = NoLocks
    /\ main = MainAt("polling", Len(Program("polling")))
    /\ handler = None
    /\ INTERRUPT_COUNT = 0
    /\ TIMER_COUNT = 0

\* the Writer as lazy_static constructs it
InitWriter ==
    StaticsInit /\ AtMainLoop /\ \E screen \in BootScreens : WRITER = Writer_init(screen)

\* the kernel on entry to its main loop
InitBooted ==
    StaticsInit /\ AtMainLoop /\ \E screen \in BootScreens : WRITER = Booted(screen)

\* the kernel on entry to _start
InitStart(mode) ==
    /\ StaticsInit
    /\ \E screen \in BootScreens : WRITER = Writer_init(screen)
    /\ \E masks \in PriorMasks : PowerOn(mode, masks)

(***************************************************************************)
(* Display operations (vga_buffer.rs)                                      *)
(***************************************************************************)
VgaBytes == {120, NL, CR, 7}

\* strings handed to write_string; 195 169 is the UTF-8 encoding of U+00E9
VgaStrings ==
    { <<120>>, <<NL>>, <<7>>, <<CR>>, <<195, 169>>, <<120, 7, NL, 121>>,
      Repeat(120, BUFFER_WIDTH - 1), Repeat(120, BUFFER_WIDTH),
      Repeat(NL, BUFFER_HEIGHT - 1) }

VgaStep(op, arg, w) ==
    /\ log.ops < MaxOps
    /\ WRITER' = w
    /\ obs' = [NoObs EXCEPT !.op = op, !.arg = arg]
    /\ log' = [log EXCEPT !.ops = log.ops + 1]
    /\ UNCHANGED <<SCANCODE_QUEUE, shellVars, machineVars>>

VgaWriteByte == \E byte \in VgaBytes : VgaStep("write_byte", byte, Writer_write_byte(WRITER, byte))

VgaWriteString == \E s \in VgaStrings : VgaStep("write_string", s, Writer_write_string(WRITER, s))

VgaBackspace == VgaStep("backspace", None, Writer_backspace(WRITER))

VgaClearScreen == VgaStep("clear_screen", None, Writer_clear_screen(WRITER))

NextVga == VgaWriteByte \/ VgaWriteString \/ VgaBackspace \/ VgaClearScreen

SpecVga == InitWriter /\ [][NextVga]_vars

(***************************************************************************)
(* Scancode queue operations (keyboard.rs)                                 *)
(***************************************************************************)
\* the bytes the keyboard may deliver as its n-th scancode (n counted from 0)
ArrivingBytes(n) == {(n + 1) % 256} \cup (IF n < MaxFreeBytes THEN {224} ELSE {})

\* add_scancode(scancode): push, and a warning on the display if the queue is full
AddScancode ==
    /\ log.arrivals < MaxArrivals
    /\ \E scancode \in ArrivingBytes(log.arrivals) :
       \E pushed \in {ScancodeQueue_push(SCANCODE_QUEUE, scancode)} :
            /\ SCANCODE_QUEUE' = pushed.q
            /\ WRITER' = IF pushed.result = "Err" THEN println(WRITER, STR_QUEUE_FULL)
                         ELSE WRITER
            /\ obs' = [NoObs EXCEPT !.op = "push", !.arg = scancode,
                                    !.result = pushed.result]
            /\ log' = [log EXCEPT !.arrivals = log.arrivals + 1,
                                  !.accepted = IF pushed.result = "Ok"
                                               THEN Append(log.accepted, scancode)
                                               ELSE log.accepted]
            /\ UNCHANGED <<shellVars, machineVars>>

\* SCANCODE_QUEUE.lock().pop()
PopScancode ==
    \E popped \in {ScancodeQueue_pop(SCANCODE_QUEUE)} :
        /\ SCANCODE_QUEUE' = popped.q
        /\ obs' = [NoObs EXCEPT !.op = "pop", !.result = popped.result]
        /\ log' = [log EXCEPT !.popped = IF popped.result # None
                                         THEN Append(log.popped, popped.result[1])
                                         ELSE log.popped]
        /\ UNCHANGED <<WRITER, shellVars, machineVars>>

NextQueue == AddScancode \/ PopScancode

SpecQueue == InitBooted /\ [][NextQueue]_vars

(***************************************************************************)
(* Shell operations (shell.rs process_key, called from the main loop)      *)
(***************************************************************************)
ShellState ==
    [LINE_BUF |-> LINE_BUF, LINE_LEN |-> LINE_LEN, HISTORY |-> HISTORY,
     HISTORY_LENS |-> HISTORY_LENS, HISTORY_INDEX |-> HISTORY_INDEX,
     HISTORY_COUNT |-> HISTORY_COUNT, HISTORY_BROWSE_INDEX |-> HISTORY_BROWSE_INDEX,
     W |-> WRITER, halted |-> halted,
     out |-> <<>>, cmd |-> None, dispatched |-> None, invoked |-> None]

IsPrintableKey(key) == key.kind = "Unicode" /\ key.c \notin {NL, BS, DEL}

\* The run's record after `key` has been processed, t being the state afterwards.
\* typed: the characters typed into the empty line buffer since the last
\* Enter, kept through the Enter that submits them; fresh: no other key came
\* in between and every character found room.  ups: the number of arrow-up
\* presses that followed the last Enter with no other key between (-1 once
\* another key came).  recall: "up" after an arrow-up pressed with the
\* browse index None, "upAgain" after an arrow-up pressed while browsing,
\* "updown" and "upAgainDown" after the arrow-down that followed it.
\* overflows: the number of characters that arrived with the line buffer full.
\* backspaces: the number of Backspace and Delete keys processed while the
\* prompt and the line filled a row of the display.
\* ticks, requests: the timer ticks and the requests of other devices so far.
LogKey(key, t) ==
    LET newLine == obs.op # "process_key" \/ obs.arg = KEY_ENTER
        typed0 == IF newLine THEN <<>> ELSE log.typed
        fresh0 == IF newLine THEN LINE_LEN = 0 ELSE log.fresh
        accepted == IsPrintableKey(key) /\ LINE_LEN < LINE_BUF_LEN - 1
    IN  [log EXCEPT
            !.enters = IF key = KEY_ENTER THEN log.enters + 1 ELSE log.enters,
            !.submitted = IF key = KEY_ENTER /\ t.cmd # None /\ t.cmd[1] # <<>>
                          THEN Append(log.submitted, t.cmd[1]) ELSE log.submitted,
            !.fresh = IF key = KEY_ENTER THEN fresh0 ELSE fresh0 /\ accepted,
            !.typed = IF key = KEY_ENTER THEN typed0
                      ELSE IF fresh0 /\ accepted THEN Append(typed0, key.c)
                      ELSE <<>>,
            !.ups = IF key = KEY_ENTER THEN 0
                    ELSE IF key = KEY_UP /\ 0 <= log.ups /\ log.ups <= HISTORY_SIZE
                    THEN log.ups + 1
                    ELSE -1,
            !.recall = IF key = KEY_UP
                       THEN IF HISTORY_BROWSE_INDEX = None THEN "up" ELSE "upAgain"
                       ELSE IF key = KEY_DOWN /\ log.recall = "up" THEN "updown"
                       ELSE IF key = KEY_DOWN /\ log.recall = "upAgain" THEN "upAgainDown"
                       ELSE "none",
            !.overflows = IF IsPrintableKey(key) /\ LINE_LEN >= LINE_BUF_LEN - 1
                          THEN log.overflows + 1 ELSE log.overflows,
            !.backspaces = IF /\ key \in {KEY_BACKSPACE, KEY_DELETE}
                              /\ Len(STR_PROMPT) + LINE_LEN >= BUFFER_WIDTH
                           THEN log.backspaces + 1 ELSE log.backspaces]

\* shell::process_key(key), called by the main loop until reset_cpu() or a panic
\* process_key(key) on the shell and the display
KeyStep(key) ==
    /\ ~halted
    /\ ~WRITER.panicked
    /\ \E t \in {process_key(ShellState, key)} :
           /\ LINE_BUF' = t.LINE_BUF
           /\ LINE_LEN' = t.LINE_LEN
           /\ HISTORY' = t.HISTORY
           /\ HISTORY_LENS' = t.HISTORY_LENS
           /\ HISTORY_INDEX' = t.HISTORY_INDEX
           /\ HISTORY_COUNT' = t.HISTORY_COUNT
           /\ HISTORY_BROWSE_INDEX' = t.HISTORY_BROWSE_INDEX
           /\ WRITER' = t.W
           /\ halted' = t.halted
           /\ obs' = [op |-> "process_key", arg |-> key, result |-> None, out |-> t.out,
                      cmd |-> t.cmd, dispatched |-> t.dispatched, invoked |-> t.invoked]
           /\ log' = LogKey(key, t)

ProcessKey(key) == KeyStep(key) /\ UNCHANGED <<SCANCODE_QUEUE, machineVars>>

Line == Slice(LINE_BUF, LINE_LEN)

\* the characters that continue the current line towards a line of `lines`
NextChars(lines) ==
    {l[LINE_LEN + 1] : l \in {m \in lines : Len(m) > LINE_LEN /\ SubSeq(m, 1, LINE_LEN) = Line}}

PressArrowUp == ProcessKey(KEY_UP)

PressArrowDown == ProcessKey(KEY_DOWN)

PressOtherKey == ProcessKey(KEY_HOME)

\* The user of the command specification types command lines, character by
\* character, and submits them (or an empty line) with Enter.
\* LongLine fills the line buffer to the last byte push_char accepts.
LongLine == [i \in 1..LINE_BUF_LEN - 1 |-> 33 + (i % 90)]

ShellLines ==
    {LINE_ECHO_HI_THERE, NAME_ECHO, NAME_CLEAR, LINE_FOO, <<SPACE, SPACE>>, LongLine}

TypeChar == \E c \in NextChars(ShellLines) : ProcessKey(Unicode(c))

PressEnter ==
    /\ log.enters < MaxEnters
    /\ (LINE_LEN = 0 \/ Line \in ShellLines)
    /\ ProcessKey(KEY_ENTER)

NextShell == TypeChar \/ PressEnter \/ PressOtherKey

SpecShell == InitBooted /\ [][NextShell]_vars

\* The user of the editing specification types short lines and edits them:
\* backspace, delete, history recall, Enter at any moment.
EditLines == {<<97, 98>>, <<98, TAB>>}

EditChar == \E c \in NextChars(EditLines) : ProcessKey(Unicode(c))

EditEnter == log.enters < MaxEditEnters /\ ProcessKey(KEY_ENTER)

PressBackspace == \E key \in {KEY_BACKSPACE, KEY_DELETE} : ProcessKey(key)

NextEdit ==
    \/ EditChar
    \/ EditEnter
    \/ PressBackspace
    \/ PressArrowUp
    \/ PressArrowDown
    \/ PressOtherKey

SpecEdit == InitBooted /\ [][NextEdit]_vars

\* the user of the history specification submits the one-letter lines a, b, c, ...
TypeLetter == LINE_LEN = 0 /\ ProcessKey(Unicode(97 + Len(log.submitted)))

SubmitLetter ==
    /\ Len(log.submitted) < MaxSubmits
    /\ LINE_LEN > 0
    /\ HISTORY_BROWSE_INDEX = None
    /\ ProcessKey(KEY_ENTER)

NextHistory == TypeLetter \/ SubmitLetter \/ PressArrowUp \/ PressArrowDown

SpecHistory == InitBooted /\ [][NextHistory]_vars

\* The user of the dispatch specification submits lines whose first token is
\* or is not a name of the command table: a name, a name in another case, a
\* name cut short, a name with a letter more, an unknown name behind blanks.
CommandLines == {NAME_HELP, LINE_HELP_CAPITAL, LINE_ECH, LINE_HELPX, LINE_FOO_BAR}

CommandChar == \E c \in NextChars(CommandLines) : ProcessKey(Unicode(c))

CommandEnter ==
    /\ log.enters < MaxCommandEnters
    /\ Line \in CommandLines
    /\ ProcessKey(KEY_ENTER)

NextCommands == CommandChar \/ CommandEnter

SpecCommands == InitBooted /\ [][NextCommands]_vars

\* The user of the long-line specification types LongLine, a line that wraps
\* past the display width and fills the line buffer, goes on typing when the
\* buffer is full, and takes characters back while the prompt and the line
\* fill a row of the display.
FillChar ==
    \/ /\ LINE_LEN < LINE_BUF_LEN - 1
       /\ ProcessKey(Unicode(LongLine[LINE_LEN + 1]))
    \/ /\ LINE_LEN >= LINE_BUF_LEN - 1
       /\ log.overflows < MaxOverflows
       /\ ProcessKey(Unicode(120))

FillBackspace ==
    /\ Len(STR_PROMPT) + LINE_LEN >= BUFFER_WIDTH
    /\ log.backspaces < MaxFillBackspaces
    /\ ProcessKey(KEY_BACKSPACE)

NextFill == FillChar \/ FillBackspace

SpecFill == InitBooted /\ [][NextFill]_vars

(***************************************************************************)
(* The kernel entry and its main loop (main.rs _start, keyboard.rs get_key)*)
(***************************************************************************)
\* the CPU takes the request of this line before the next instruction
Deliverable(line) ==
    /\ interrupts_enabled
    /\ idt_loaded
    /\ PICS.remapped
    /\ handler = None
    /\ line \in PICS.irr
    /\ Unmasked(PICS, line)

\* normal-context code executes its next statement
MainRuns ==
    /\ handler = None
    /\ ~halted
    /\ \A line \in MasterLines \cup SlaveLines : ~Deliverable(line)

CurrentStmt == Program(main.mode)[main.pc]

\* _print: WRITER.lock()
MainPrintLock ==
    /\ MainRuns
    /\ CurrentStmt.op = "print"
    /\ main.phase = "run"
    /\ locks.WRITER = "free"
    /\ locks' = [locks EXCEPT !.WRITER = "main"]
    /\ main' = [main EXCEPT !.phase = "holds_writer"]
    /\ obs' = [NoObs EXCEPT !.op = "lock", !.arg = "WRITER"]
    /\ UNCHANGED <<SCANCODE_QUEUE, WRITER, shellVars, idt_loaded, interrupts_enabled, PICS,
                   keyboard_port, handler, INTERRUPT_COUNT, TIMER_COUNT, log>>

\* _print: write_fmt(args), then the guard is dropped
MainPrintWrite ==
    /\ MainRuns
    /\ CurrentStmt.op = "print"
    /\ main.phase = "holds_writer"
    /\ \E text \in {PrintText(CurrentStmt, main)} :
           /\ WRITER' = print(WRITER, text)
           /\ obs' = [NoObs EXCEPT !.op = "print", !.out = text]
    /\ locks' = [locks EXCEPT !.WRITER = "free"]
    /\ main' = [main EXCEPT !.phase = "run", !.pc = @ + 1]
    /\ UNCHANGED <<SCANCODE_QUEUE, shellVars, idt_loaded, interrupts_enabled, PICS,
                   keyboard_port, handler, INTERRUPT_COUNT, TIMER_COUNT, log>>

\* the statements of _start and init that are neither a print nor get_key
SimpleStmts ==
    {"gdt_init", "load_idt", "pics_initialize", "read_mask", "write_mask",
     "read_mask_after", "sti", "are_enabled"}

MainStmt ==
    /\ MainRuns
    /\ CurrentStmt.op \in SimpleStmts
    /\ \E op \in {CurrentStmt.op} :
           /\ idt_loaded' = (idt_loaded \/ op = "load_idt")
           /\ interrupts_enabled' = (interrupts_enabled \/ op = "sti")
           /\ PICS' = IF op = "pics_initialize" THEN ChainedPics_initialize(PICS)
                      ELSE IF op = "write_mask" THEN [PICS EXCEPT !.mask1 = main.new_mask]
                      ELSE PICS
           /\ main' = [main EXCEPT
                         !.pc = @ + 1,
                         !.mask_before = IF op = "read_mask" THEN PICS.mask1 ELSE @,
                         !.new_mask = IF op = "read_mask" THEN ClearBit(PICS.mask1, 0) ELSE @,
                         !.mask_after = IF op = "read_mask_after" THEN PICS.mask1 ELSE @,
                         !.enabled = IF op = "are_enabled" THEN interrupts_enabled ELSE @]
           /\ obs' = [NoObs EXCEPT !.op = op]
    /\ UNCHANGED <<SCANCODE_QUEUE, WRITER, shellVars, keyboard_port, locks, handler,
                   INTERRUPT_COUNT, TIMER_COUNT, log>>

\* get_key: KEYBOARD_DECODER.lock(), the status port is read; with the
\* output-buffer-full bit clear get_key returns None and the guard is dropped
GetKeyStatus ==
    /\ MainRuns
    /\ CurrentStmt.op = "get_key"
    /\ main.phase = "run"
    /\ locks.KEYBOARD_DECODER = "free"
    /\ IF keyboard_port.full
       THEN /\ locks' = [locks EXCEPT !.KEYBOARD_DECODER = "main"]
            /\ main' = [main EXCEPT !.phase = "polled"]
            /\ obs' = [NoObs EXCEPT !.op = "status", !.result = Some(1)]
       ELSE /\ UNCHANGED <<locks, main>>
            /\ obs' = [NoObs EXCEPT !.op = "get_key",
                                    !.arg = [status |-> 0, reads |-> <<>>],
                                    !.result = None]
    /\ UNCHANGED <<SCANCODE_QUEUE, WRITER, shellVars, idt_loaded, interrupts_enabled, PICS,
                   keyboard_port, handler, INTERRUPT_COUNT, TIMER_COUNT, log>>

\* get_key: the data port is read once, the byte goes to the decoder, and
\* get_key returns what the decoder made of it
GetKeyData ==
    /\ MainRuns
    /\ CurrentStmt.op = "get_key"
    /\ main.phase = "polled"
    /\ \E scancode \in {keyboard_port.data} : \E key \in {Decode(scancode)} :
           /\ main' = [main EXCEPT !.phase = IF key = None THEN "run" ELSE "got_key",
                                   !.key = key]
           /\ obs' = [NoObs EXCEPT !.op = "get_key",
                                   !.arg = [status |-> 1, reads |-> <<scancode>>],
                                   !.result = key]
    /\ keyboard_port' = [keyboard_port EXCEPT !.full = FALSE]
    /\ PICS' = [PICS EXCEPT !.irr = @ \ {1}]
    /\ locks' = [locks EXCEPT !.KEYBOARD_DECODER = "free"]
    /\ UNCHANGED <<SCANCODE_QUEUE, WRITER, shellVars, idt_loaded, interrupts_enabled,
                   handler, INTERRUPT_COUNT, TIMER_COUNT, log>>

\* the body of the while-let loop: shell::process_key(key)
MainProcessKey ==
    /\ MainRuns
    /\ CurrentStmt.op = "get_key"
    /\ main.phase = "got_key"
    /\ KeyStep(main.key[1])
    /\ main' = [main EXCEPT !.phase = "run", !.key = None]
    /\ UNCHANGED <<SCANCODE_QUEUE, idt_loaded, interrupts_enabled, PICS, keyboard_port,
                   locks, handler, INTERRUPT_COUNT, TIMER_COUNT>>

(***************************************************************************)
(* The devices                                                             *)
(***************************************************************************)
\* A request raised while a handler runs waits in the controller until the
\* handler has returned (the handler runs with the interrupt flag clear); the
\* devices raise it at that moment.
\* the n-th byte of the keyboard (n counted from 0): A is pressed and released
KeyByte(n) == IF n % 2 = 0 THEN SC_A ELSE SC_A_RELEASED

\* the line of the other device that raises a request: the mouse
MOUSE_LINE == 12

\* the keyboard controller has a byte for the data port and raises line 1
KeyArrives ==
    /\ handler = None
    /\ ~keyboard_port.full
    /\ log.arrivals < MaxKeyBytes
    /\ keyboard_port' = [full |-> TRUE, data |-> KeyByte(log.arrivals)]
    /\ PICS' = [PICS EXCEPT !.irr = @ \cup {1}]
    /\ log' = [log EXCEPT !.arrivals = @ + 1]
    /\ obs' = [NoObs EXCEPT !.op = "scancode", !.arg = KeyByte(log.arrivals)]
    /\ UNCHANGED <<SCANCODE_QUEUE, WRITER, shellVars, idt_loaded, interrupts_enabled, locks,
                   main, handler, INTERRUPT_COUNT, TIMER_COUNT>>

\* the timer raises line 0
TimerTick ==
    /\ handler = None
    /\ log.ticks < MaxTicks
    /\ PICS' = [PICS EXCEPT !.irr = @ \cup {0}]
    /\ log' = [log EXCEPT !.ticks = @ + 1]
    /\ obs' = [NoObs EXCEPT !.op = "request", !.arg = 0]
    /\ UNCHANGED <<SCANCODE_QUEUE, WRITER, shellVars, idt_loaded, interrupts_enabled,
                   keyboard_port, locks, main, handler, INTERRUPT_COUNT, TIMER_COUNT>>

\* another device raises its line
DeviceRequest ==
    /\ handler = None
    /\ log.requests < MaxRequests
    /\ PICS' = [PICS EXCEPT !.irr = @ \cup {MOUSE_LINE}]
    /\ log' = [log EXCEPT !.requests = @ + 1]
    /\ obs' = [NoObs EXCEPT !.op = "request", !.arg = MOUSE_LINE]
    /\ UNCHANGED <<SCANCODE_QUEUE, WRITER, shellVars, idt_loaded, interrupts_enabled,
                   keyboard_port, locks, main, handler, INTERRUPT_COUNT, TIMER_COUNT>>

(***************************************************************************)
(* The hardware interrupt handlers (interrupts.rs)                         *)
(***************************************************************************)
\* the CPU enters the handler of a line through its interrupt gate, which
\* clears the interrupt flag; the line is in service (a slave line together
\* with the cascade line of the master)
Interrupt ==
    /\ \E line \in MasterLines \cup SlaveLines :
           /\ Deliverable(line)
           /\ PICS' = [PICS EXCEPT
                         !.irr = @ \ {line},
                         !.isr = @ \cup {line}
                                   \cup (IF line \in SlaveLines THEN {CascadeLine} ELSE {})]
           /\ handler' = Some([name |-> IDT(VectorOf(line)), vector |-> VectorOf(line),
                               pc |-> IF IDT(VectorOf(line)) = "spurious" THEN "eoi"
                                      ELSE "entry",
                               scancode |-> 0, pushed |-> None, acked |-> <<>>])
           /\ obs' = [NoObs EXCEPT !.op = "interrupt", !.arg = VectorOf(line)]
    /\ interrupts_enabled' = FALSE
    /\ UNCHANGED <<SCANCODE_QUEUE, WRITER, shellVars, idt_loaded, keyboard_port, locks, main,
                   INTERRUPT_COUNT, TIMER_COUNT, log>>

Running(name, pc) == handler # None /\ handler[1].name = name /\ handler[1].pc = pc

\* timer_interrupt_handler up to its PICS.lock() (the u32 counters of the
\* handlers stay far below 2^32 in the runs of the model)
TimerEntry ==
    /\ Running("timer", "entry")
    /\ TIMER_COUNT' = TIMER_COUNT + 1
    /\ WRITER' = IF TIMER_COUNT' = 1 THEN DirectWrite(WRITER, 1, MSG_TIMER, TIMER_COLOR)
                 ELSE WRITER
    /\ handler' = Some([handler[1] EXCEPT !.pc = "eoi"])
    /\ obs' = [NoObs EXCEPT !.op = "timer_interrupt_handler"]
    /\ UNCHANGED <<SCANCODE_QUEUE, shellVars, idt_loaded, interrupts_enabled, PICS,
                   keyboard_port, locks, main, INTERRUPT_COUNT, log>>

\* keyboard_interrupt_handler up to add_scancode: the data port is read
KeyboardEntry ==
    /\ Running("keyboard", "entry")
    /\ INTERRUPT_COUNT' = INTERRUPT_COUNT + 1
    /\ WRITER' = IF INTERRUPT_COUNT' <= INT_SHOWN
                 THEN DirectWrite(WRITER, 0, MSG_INT, INT_COLOR)
                 ELSE WRITER
    /\ handler' = Some([handler[1] EXCEPT !.pc = "push", !.scancode = keyboard_port.data])
    /\ keyboard_port' = [keyboard_port EXCEPT !.full = FALSE]
    /\ obs' = [NoObs EXCEPT !.op = "keyboard_interrupt_handler", !.arg = keyboard_port.data]
    /\ UNCHANGED <<SCANCODE_QUEUE, shellVars, idt_loaded, interrupts_enabled, PICS, locks,
                   main, TIMER_COUNT, log>>

\* add_scancode: SCANCODE_QUEUE.lock().push(scancode); the guard lives to the
\* end of the if-let, through the println! of the Err arm
AddScancodePush ==
    /\ Running("keyboard", "push")
    /\ locks.SCANCODE_QUEUE = "free"
    /\ \E pushed \in {ScancodeQueue_push(SCANCODE_QUEUE, handler[1].scancode)} :
           /\ SCANCODE_QUEUE' = pushed.q
           /\ handler' = Some([handler[1] EXCEPT
                                 !.pc = IF pushed.result = "Ok" THEN "eoi" ELSE "warn",
                                 !.pushed = Some(pushed.result)])
           /\ locks' = IF pushed.result = "Ok" THEN locks
                       ELSE [locks EXCEPT !.SCANCODE_QUEUE = "handler"]
           /\ obs' = [NoObs EXCEPT !.op = "push", !.arg = handler[1].scancode,
                                   !.result = pushed.result]
           /\ log' = [log EXCEPT !.accepted = IF pushed.result = "Ok"
                                              THEN Append(@, handler[1].scancode)
                                              ELSE @]
    /\ UNCHANGED <<WRITER, shellVars, idt_loaded, interrupts_enabled, PICS, keyboard_port,
                   main, INTERRUPT_COUNT, TIMER_COUNT>>

\* add_scancode, Err arm: println! takes WRITER.lock(), a spin lock, writes
\* the warning and drops the guards
AddScancodeWarn ==
    /\ Running("keyboard", "warn")
    /\ locks.WRITER = "free"
    /\ WRITER' = println(WRITER, STR_QUEUE_FULL)
    /\ locks' = [locks EXCEPT !.SCANCODE_QUEUE = "free"]
    /\ handler' = Some([handler[1] EXCEPT !.pc = "eoi"])
    /\ obs' = [NoObs EXCEPT !.op = "print", !.out = STR_QUEUE_FULL \o <<NL>>]
    /\ UNCHANGED <<SCANCODE_QUEUE, shellVars, idt_loaded, interrupts_enabled, PICS,
                   keyboard_port, main, INTERRUPT_COUNT, TIMER_COUNT, log>>

\* handlers that all pass the timer's vector to notify_end_of_interrupt
EoiId_timer(name) == PIC_1_OFFSET

\* the id each handler passes to notify_end_of_interrupt
EoiId(name) ==
    IF name = "timer" THEN PIC_1_OFFSET
    ELSE IF name = "keyboard" THEN PIC_1_OFFSET + 1
    ELSE PIC_2_OFFSET

\* PICS.lock().notify_end_of_interrupt(id), the last statement of each handler
HandlerEoi ==
    /\ handler # None
    /\ handler[1].pc = "eoi"
    /\ locks.PICS = "free"
    /\ \E n \in {notify_end_of_interrupt(PICS, EoiId(handler[1].name))} :
           /\ PICS' = n.pics
           /\ handler' = Some([handler[1] EXCEPT !.pc = "iret", !.acked = @ \o n.acked])
           /\ obs' = [NoObs EXCEPT !.op = "notify_end_of_interrupt",
                                   !.arg = EoiId(handler[1].name), !.result = n.acked]
    /\ UNCHANGED <<SCANCODE_QUEUE, WRITER, shellVars, idt_loaded, interrupts_enabled,
                   keyboard_port, locks, main, INTERRUPT_COUNT, TIMER_COUNT, log>>

\* the handler returns: iret restores the interrupt flag of the interrupted code
HandlerReturn ==
    /\ handler # None
    /\ handler[1].pc = "iret"
    /\ handler' = None
    /\ interrupts_enabled' = TRUE
    /\ obs' = [NoObs EXCEPT !.op = "iret", !.arg = handler[1].vector,
                            !.result = handler[1].acked]
    /\ UNCHANGED <<SCANCODE_QUEUE, WRITER, shellVars, idt_loaded, PICS, keyboard_port, locks,
                   main, INTERRUPT_COUNT, TIMER_COUNT, log>>

(***************************************************************************)
(* The kernel in polling mode and in armed mode                            *)
(***************************************************************************)
NextPolling ==
    \/ MainPrintLock \/ MainPrintWrite \/ MainStmt
    \/ GetKeyStatus \/ GetKeyData \/ MainProcessKey
    \/ KeyArrives \/ TimerTick \/ DeviceRequest

SpecPolling == InitStart("polling") /\ [][NextPolling]_vars

NextArmed ==
    \/ MainPrintLock \/ MainPrintWrite \/ MainStmt
    \/ GetKeyStatus \/ GetKeyData \/ MainProcessKey
    \/ KeyArrives \/ TimerTick \/ DeviceRequest
    \/ Interrupt \/ TimerEntry \/ KeyboardEntry \/ AddScancodePush \/ AddScancodeWarn
    \/ HandlerEoi \/ HandlerReturn

SpecArmed == InitStart("armed") /\ [][NextArmed]_vars

(***************************************************************************)
(* The exception handlers (interrupts.rs).  An exception is taken whatever *)
(* the interrupt flag holds, at any instruction of the normal-context      *)
(* code, once the IDT is loaded.                                           *)
(***************************************************************************)
FatalKinds == {"double_fault", "page_fault", "general_protection_fault"}

\* the exceptions of the model: kind and error code pushed by the CPU
Faults ==
    { [kind |-> "breakpoint", error_code |-> 0],
      [kind |-> "double_fault", error_code |-> 0],
      [kind |-> "page_fault", error_code |-> 2],
      [kind |-> "general_protection_fault", error_code |-> 0],
      [kind |-> "general_protection_fault", error_code |-> 16] }

\* The println! statements of a fatal handler, in order: the value each one
\* reports and the text it writes.  The text of a value formatted with {:?}
\* or {:#?} (the address in CR2, the page fault's error code, the stack
\* frame) is produced by the x86_64 crate and is left out of the text.
ExceptionReport(kind, error_code) ==
    IF kind = "double_fault"
    THEN << [item |-> "message", text |-> EXC_DOUBLE_FAULT] >>
    ELSE IF kind = "page_fault"
    THEN << [item |-> "message", text |-> EXC_PAGE_FAULT],
            [item |-> "address", text |-> EXC_ACCESSED_ADDRESS],
            [item |-> "error_code", text |-> EXC_ERROR_CODE],
            [item |-> "stack_frame", text |-> <<>>] >>
    ELSE << [item |-> "message", text |-> EXC_GENERAL_PROTECTION_FAULT],
            [item |-> "error_code", text |-> EXC_ERROR_CODE \o Decimal(error_code)],
            [item |-> "stack_frame", text |-> <<>>] >>

\* the CPU enters the handler of an exception through its gate of the IDT
Exception ==
    /\ handler = None
    /\ idt_loaded
    /\ ~halted
    /\ \E f \in Faults :
           /\ f.kind = "breakpoint" => log.breakpoints < MaxBreakpoints
           /\ handler' = Some([name |-> f.kind,
                               pc |-> IF f.kind = "breakpoint" THEN "entry" ELSE "report",
                               step |-> 1, error_code |-> f.error_code,
                               reported |-> <<>>])
           /\ log' = [log EXCEPT !.breakpoints =
                                     IF f.kind = "breakpoint" THEN @ + 1 ELSE @]
           /\ obs' = [NoObs EXCEPT !.op = "exception", !.arg = f.kind]
    /\ interrupts_enabled' = FALSE
    /\ UNCHANGED <<SCANCODE_QUEUE, WRITER, shellVars, idt_loaded, PICS, keyboard_port, locks,
                   main, INTERRUPT_COUNT, TIMER_COUNT>>

\* breakpoint_handler: `BP!` written into display memory, no lock taken
BreakpointHandler ==
    /\ Running("breakpoint", "entry")
    /\ WRITER' = DirectWrite(WRITER, BP_OFFSET \div (2 * BUFFER_WIDTH), MSG_BP, BP_COLOR)
    /\ handler' = Some([handler[1] EXCEPT !.pc = "iret"])
    /\ obs' = [NoObs EXCEPT !.op = "breakpoint_handler"]
    /\ UNCHANGED <<SCANCODE_QUEUE, shellVars, idt_loaded, interrupts_enabled, PICS,
                   keyboard_port, locks, main, INTERRUPT_COUNT, TIMER_COUNT, log>>

\* breakpoint_handler returns; iret restores the interrupt flag of the
\* interrupted code, which is clear in polling mode
BreakpointReturn ==
    /\ Running("breakpoint", "iret")
    /\ handler' = None
    /\ obs' = [NoObs EXCEPT !.op = "iret", !.arg = "breakpoint"]
    /\ UNCHANGED <<SCANCODE_QUEUE, WRITER, shellVars, idt_loaded, interrupts_enabled, PICS,
                   keyboard_port, locks, main, INTERRUPT_COUNT, TIMER_COUNT, log>>

\* a println! of a fatal handler: _print takes WRITER.lock(), a spin lock,
\* writes and drops the guard
FatalPrint ==
    /\ handler # None
    /\ handler[1].pc = "report"
    /\ locks.WRITER = "free"
    /\ \E report \in {ExceptionReport(handler[1].name, handler[1].error_code)} :
           /\ WRITER' = println(WRITER, report[handler[1].step].text)
           /\ handler' = Some([handler[1] EXCEPT
                                 !.pc = IF handler[1].step = Len(report) THEN "halt"
                                        ELSE "report",
                                 !.step = @ + 1,
                                 !.reported = Append(@, report[handler[1].step].item)])
           /\ obs' = [NoObs EXCEPT !.op = "print",
                                   !.out = report[handler[1].step].text \o <<NL>>]
    /\ UNCHANGED <<SCANCODE_QUEUE, shellVars, idt_loaded, interrupts_enabled, PICS,
                   keyboard_port, locks, main, INTERRUPT_COUNT, TIMER_COUNT, log>>

\* loop { hlt() }: the handler never returns
FatalHalt ==
    /\ handler # None
    /\ handler[1].pc = "halt"
    /\ obs' = [NoObs EXCEPT !.op = "hlt"]
    /\ UNCHANGED <<SCANCODE_QUEUE, WRITER, shellVars, machineVars, log>>

\* the kernel as built (polling mode), its keyboard, and exceptions
NextFaults ==
    \/ MainPrintLock \/ MainPrintWrite \/ MainStmt
    \/ GetKeyStatus \/ GetKeyData \/ MainProcessKey
    \/ KeyArrives
    \/ Exception \/ BreakpointHandler \/ BreakpointReturn \/ FatalPrint \/ FatalHalt

SpecFaults == InitStart("polling") /\ [][NextFaults]_vars

(***************************************************************************)
(* Observations used by the properties                                     *)
(***************************************************************************)
\* the number of bytes the queue holds, from its cursors
StoredCount(q) == (q.write_pos + SCANCODE_QUEUE_SIZE - q.read_pos) % SCANCODE_QUEUE_SIZE

\* the bytes the queue holds, oldest first: what successive pops would return
Stored(q) == [i \in 1..StoredCount(q) |-> q.buffer[(q.read_pos + i - 1) % SCANCODE_QUEUE_SIZE]]

\* the bytes accepted by a push and not yet popped, oldest first
Pending == SubSeq(log.accepted, Len(log.popped) + 1, Len(log.accepted))

EnterProcessed == obs.op = "process_key" /\ obs.arg = KEY_ENTER

\* the history ring, as cmd_history and the arrow keys walk it
OldestSlot == IF HISTORY_COUNT < HISTORY_SIZE THEN 0 ELSE HISTORY_INDEX
NewestSlot == (OldestSlot + HISTORY_COUNT - 1) % HISTORY_SIZE
HistoryEntry(idx) == Slice(HISTORY[idx], HISTORY_LENS[idx])
RingEntries ==
    [j \in 1..HISTORY_COUNT |-> HistoryEntry((OldestSlot + j - 1) % HISTORY_SIZE)]

\* the last operation wrote one newline to the display
NewlineWritten ==
    \/ obs.op = "write_byte" /\ obs.arg = NL
    \/ obs.op = "write_string" /\ obs.arg = <<NL>>

BlankCell == ScreenChar(SPACE, WRITER.color_code)

\* the arguments of a command that are not the padding of the fixed array
ActualArgs(args) == SelectSeq(args, LAMBDA a : a # <<>>)

JoinWithSpaces(args) ==
    Fold(LAMBDA acc, a : IF acc = <<>> THEN a ELSE acc \o <<SPACE>> \o a, <<>>, args)

(***************************************************************************)
(* Properties of the scancode queue (SpecQueue)                            *)
(***************************************************************************)
\* C1: whatever pushes and pops are made, the bytes popped are a prefix of
\* the bytes accepted (each successful pop returns the oldest accepted byte
\* not yet popped: none fabricated, none reordered), the queue holds exactly
\* the accepted bytes not yet popped, and it never holds more than 15.
C1_QueueIsFifo ==
    /\ IsPrefix(log.popped, log.accepted)
    /\ Stored(SCANCODE_QUEUE) = Pending
    /\ StoredCount(SCANCODE_QUEUE) <= SCANCODE_QUEUE_SIZE - 1
    /\ Len(log.accepted) - Len(log.popped) <= SCANCODE_QUEUE_SIZE - 1
    /\ (obs.op = "pop" /\ obs.result # None
            => obs.result = Some(log.accepted[Len(log.popped)]))

\* C1 witness: a pop has returned a byte after the cursors wrapped around the
\* 16 slots and after a byte was dropped on a full queue.
C1_Witness ==
    /\ obs.op = "pop"
    /\ obs.result # None
    /\ Len(log.popped) > SCANCODE_QUEUE_SIZE
    /\ log.arrivals > Len(log.accepted)

\* C2: a push made while the queue holds 15 bytes returns Err and leaves
\* buffer, read_pos and write_pos as they were; the bytes queued before are
\* still the ones pending, and the next pop returns the oldest of them.
C2_PushOnFullDropsNewest ==
    [][ (obs'.op = "push" /\ StoredCount(SCANCODE_QUEUE) = SCANCODE_QUEUE_SIZE - 1)
            => /\ obs'.result = "Err"
               /\ SCANCODE_QUEUE' = SCANCODE_QUEUE
               /\ log'.accepted = log.accepted
               /\ Stored(SCANCODE_QUEUE') = Pending
               /\ ScancodeQueue_pop(SCANCODE_QUEUE').result = Some(Pending[1]) ]_vars

\* C2 witness: a push has just been refused by a queue that holds 15 bytes.
C2_Witness ==
    /\ obs.op = "push"
    /\ obs.result = "Err"
    /\ StoredCount(SCANCODE_QUEUE) = SCANCODE_QUEUE_SIZE - 1
    /\ Stored(SCANCODE_QUEUE) = Pending

(***************************************************************************)
(* Properties of the shell (SpecShell, SpecEdit, SpecHistory)              *)
(***************************************************************************)
\* C3: when a sequence of fewer than 128 characters of the keyboard's ASCII
\* repertoire has been typed key by key into the empty line buffer and Enter
\* is pressed, the line get_line returns is that sequence, and if it is not
\* empty it is the line execute_command receives (an empty line is not
\* dispatched).
C3_TypedLineIsDispatched ==
    (EnterProcessed /\ log.fresh)
        => /\ Len(log.typed) < LINE_BUF_LEN
           /\ obs.cmd = Some(log.typed)
           /\ (log.typed # <<>> => obs.dispatched = Some(log.typed))

\* C3 witness: a line of 127 characters, the longest the buffer takes, has
\* been typed and dispatched.
C3_Witness ==
    /\ EnterProcessed
    /\ log.fresh
    /\ Len(log.typed) = LINE_BUF_LEN - 1
    /\ obs.dispatched = Some(log.typed)

\* C4: after N non-empty lines were submitted to an empty history, the ring
\* holds the last min(N, 10) of them, oldest first from its oldest slot, and
\* k successive arrow-up presses after the last Enter (k up to the number of
\* entries held) have loaded the k-th most recent line into the line buffer.
C4_HistoryRingRecall ==
    LET N == Len(log.submitted)
    IN  /\ HISTORY_COUNT = Min(N, HISTORY_SIZE)
        /\ RingEntries = SubSeq(log.submitted, N - HISTORY_COUNT + 1, N)
        /\ \A k \in 1..HISTORY_COUNT :
               log.ups = k
                   => /\ Line = log.submitted[N - k + 1]
                      /\ HISTORY_BROWSE_INDEX =
                             Some((NewestSlot + HISTORY_SIZE - (k - 1)) % HISTORY_SIZE)

\* C4 witness: more than 10 lines were submitted and the tenth arrow-up has
\* loaded the oldest line the ring still holds.
C4_Witness ==
    /\ Len(log.submitted) > HISTORY_SIZE
    /\ log.ups = HISTORY_SIZE
    /\ Line = log.submitted[Len(log.submitted) - HISTORY_SIZE + 1]

\* C5: with a non-empty history, arrow-up selects the most recent entry when
\* no entry is browsed, is a no-op (browse index, line buffer, display) when
\* the oldest entry is browsed, and otherwise moves the browse index one
\* entry older; at every fill level of the ring.
C5_ArrowUpStopsAtOldest ==
    [][ (obs'.op = "process_key" /\ obs'.arg = KEY_UP /\ HISTORY_COUNT > 0)
            => IF HISTORY_BROWSE_INDEX = None
               THEN HISTORY_BROWSE_INDEX' = Some(NewestSlot)
               ELSE IF HISTORY_BROWSE_INDEX = Some(OldestSlot)
               THEN UNCHANGED <<HISTORY_BROWSE_INDEX, LINE_BUF, LINE_LEN, WRITER>>
               ELSE HISTORY_BROWSE_INDEX' =
                        Some((HISTORY_BROWSE_INDEX[1] + HISTORY_SIZE - 1) % HISTORY_SIZE) ]_vars

\* C6: after Enter, a printable character, backspace or delete has been
\* processed, the browse index is None.
C6_BrowseIndexClearedByEditing ==
    (/\ obs.op = "process_key"
     /\ \/ obs.arg = KEY_ENTER
        \/ IsPrintableKey(obs.arg)
        \/ obs.arg \in {KEY_BACKSPACE, KEY_DELETE})
        => HISTORY_BROWSE_INDEX = None

C8_NewlineScrollsAtLastRow ==
    [][ (\/ obs'.op = "write_byte" /\ obs'.arg = NL
         \/ obs'.op = "write_string" /\ obs'.arg = <<NL>>)
            => IF WRITER.row_position = BUFFER_HEIGHT - 1
               THEN /\ \A r \in 1..BUFFER_HEIGHT - 1 :
                           WRITER'.chars[r - 1] = WRITER.chars[r]
                    /\ \A c \in Cols :
                           WRITER'.chars[BUFFER_HEIGHT - 1][c]
                               = ScreenChar(SPACE, WRITER.color_code)
                    /\ DOMAIN WRITER'.chars = Rows
                    /\ WRITER'.row_position = BUFFER_HEIGHT - 1
                    /\ WRITER'.column_position = 0
               ELSE /\ WRITER'.row_position = WRITER.row_position + 1
                    /\ WRITER'.column_position = 0
                    /\ WRITER'.chars = WRITER.chars ]_vars

\* C8 witness: a newline has scrolled a screen of text: the row of B's that
\* was second is now first and the last row is blank.
C8_Witness ==
    /\ NewlineWritten
    /\ WRITER.row_position = BUFFER_HEIGHT - 1
    /\ WRITER.column_position = 0
    /\ \A c \in Cols : AsciiOf(WRITER.chars[0][c]) = 66
    /\ \A c \in Cols : WRITER.chars[BUFFER_HEIGHT - 1][c] = BlankCell

(***************************************************************************)
(* Properties of the commands (SpecShell)                                  *)
(***************************************************************************)
\* C9: Enter on the line `echo hi there` prints the line break of Enter,
\* `hi there`, a line break and the prompt, nothing else; and whenever echo
\* is called, what is printed is its actual arguments joined by single
\* spaces, then the line break and the prompt.
C9_EchoEmitsArguments ==
    /\ (EnterProcessed /\ obs.cmd = Some(LINE_ECHO_HI_THERE))
           => obs.out = <<NL>> \o SubSeq(LINE_ECHO_HI_THERE, Len(NAME_ECHO) + 2,
                                       Len(LINE_ECHO_HI_THERE))
                             \o <<NL>> \o STR_PROMPT
    /\ (EnterProcessed /\ obs.invoked # None /\ obs.invoked[1].func = "cmd_echo")
           => obs.out = <<NL>> \o JoinWithSpaces(ActualArgs(obs.invoked[1].args))
                               \o <<NL>> \o STR_PROMPT

\* C10: after Enter on the line `clear`, the first cells of row 0 hold the
\* fresh prompt `> `, every other cell of the grid is blank, and the cursor
\* is on row 0 behind the prompt (column 2).
C10_ClearLeavesOnlyPrompt ==
    (EnterProcessed /\ obs.cmd = Some(NAME_CLEAR))
        => /\ WRITER.row_position = 0
           /\ WRITER.column_position = Len(STR_PROMPT)
           /\ \A r \in Rows : \A c \in Cols :
                  WRITER.chars[r][c] =
                      IF r = 0 /\ c < Len(STR_PROMPT)
                      THEN ScreenChar(STR_PROMPT[c + 1], WRITER.color_code)
                      ELSE BlankCell

\* C10 as stated: after Enter on the line `clear`, every cell of the grid is
\* blank and the cursor is at row 0, column 0.
C10_ClearLeavesBlankScreen ==
    (EnterProcessed /\ obs.cmd = Some(NAME_CLEAR))
        => /\ WRITER.row_position = 0
           /\ WRITER.column_position = 0
           /\ \A r \in Rows : \A c \in Cols : WRITER.chars[r][c] = BlankCell

\* C10 witness: `clear` has been dispatched to cmd_clear and the prompt
\* stands at the top of the screen.
C10_Witness ==
    /\ EnterProcessed
    /\ obs.cmd = Some(NAME_CLEAR)
    /\ obs.invoked # None
    /\ obs.invoked[1].func = "cmd_clear"
    /\ AsciiOf(WRITER.chars[0][0]) = 62
    /\ WRITER.column_position = Len(STR_PROMPT)

(***************************************************************************)
(* Properties of Enter, unknown commands and the line buffer (SpecEdit,    *)
(* SpecShell, SpecFill)                                                    *)
(***************************************************************************)
\* C11: Enter on an empty line buffer leaves the history ring (entries,
\* lengths, write index, count) as it was, hands nothing to execute_command
\* and prints the line break and a fresh prompt; Enter on a non-empty line
\* copies the line into the slot at the write index and into no other slot,
\* advances the write index by one around the ring, counts one entry more up
\* to the capacity, hands the line to execute_command, and leaves the line
\* buffer empty and the browse index None.
C11_EnterRecordsNonEmptyLines ==
    [][ (obs'.op = "process_key" /\ obs'.arg = KEY_ENTER)
            => IF LINE_LEN = 0
               THEN /\ UNCHANGED <<HISTORY, HISTORY_LENS, HISTORY_INDEX, HISTORY_COUNT>>
                    /\ obs'.dispatched = None
                    /\ obs'.invoked = None
                    /\ obs'.out = <<NL>> \o STR_PROMPT
               ELSE /\ Slice(HISTORY'[HISTORY_INDEX], HISTORY_LENS'[HISTORY_INDEX]) = Line
                    /\ \A k \in 0..HISTORY_SIZE - 1 :
                           k # HISTORY_INDEX
                               => /\ HISTORY'[k] = HISTORY[k]
                                  /\ HISTORY_LENS'[k] = HISTORY_LENS[k]
                    /\ HISTORY_INDEX' = (HISTORY_INDEX + 1) % HISTORY_SIZE
                    /\ HISTORY_COUNT' = Min(HISTORY_COUNT + 1, HISTORY_SIZE)
                    /\ obs'.dispatched = Some(Line)
                    /\ LINE_LEN' = 0
                    /\ HISTORY_BROWSE_INDEX' = None ]_vars

\* C11 witness: Enter on an empty line has followed Enter on a non-empty
\* one: one entry is held, nothing was dispatched, the prompt was printed.
C11_Witness ==
    /\ EnterProcessed
    /\ log.enters = 2
    /\ obs.cmd = Some(<<>>)
    /\ obs.dispatched = None
    /\ obs.out = <<NL>> \o STR_PROMPT
    /\ HISTORY_COUNT = 1
    /\ HISTORY_INDEX = 1

\* the first token of the line in the line buffer, as split_whitespace finds it
FirstToken == split_whitespace(Line)[0]

\* no entry of the command table has this name, compared byte for byte
IsUnknownName(name) == \A i \in 1..Len(COMMANDS) : COMMANDS[i].name # name

\* C12: Enter on a line whose first token is no name of the command table
\* calls no command function and prints the line break, `Unknown command: `,
\* the token, `. Type 'help' for available commands.`, a line break and the
\* prompt; the shell state changes as Enter changes it for every non-empty
\* line and no further: the line is recorded in the history ring at the
\* write index, the line buffer is emptied, the browse index is None, the
\* shell keeps running.
C12_UnknownCommandIsReported ==
    [][ (/\ obs'.op = "process_key" /\ obs'.arg = KEY_ENTER
         /\ FirstToken # <<>> /\ IsUnknownName(FirstToken))
            => /\ obs'.invoked = None
               /\ obs'.out = <<NL>> \o STR_UNKNOWN_COMMAND \o FirstToken \o STR_TYPE_HELP
                                   \o <<NL>> \o STR_PROMPT
               /\ Slice(HISTORY'[HISTORY_INDEX], HISTORY_LENS'[HISTORY_INDEX]) = Line
               /\ \A k \in 0..HISTORY_SIZE - 1 :
                      k # HISTORY_INDEX
                          => HISTORY'[k] = HISTORY[k] /\ HISTORY_LENS'[k] = HISTORY_LENS[k]
               /\ HISTORY_INDEX' = (HISTORY_INDEX + 1) % HISTORY_SIZE
               /\ HISTORY_COUNT' = Min(HISTORY_COUNT + 1, HISTORY_SIZE)
               /\ LINE_LEN' = 0
               /\ HISTORY_BROWSE_INDEX' = None
               /\ halted' = halted ]_vars

\* C12 as stated: the same call and message, and the submission leaves the
\* history ring (entries, lengths, write index, count) as it was.
C12_UnknownCommandChangesNothing ==
    [][ (/\ obs'.op = "process_key" /\ obs'.arg = KEY_ENTER
         /\ FirstToken # <<>> /\ IsUnknownName(FirstToken))
            => /\ obs'.invoked = None
               /\ obs'.out = <<NL>> \o STR_UNKNOWN_COMMAND \o FirstToken \o STR_TYPE_HELP
                                   \o <<NL>> \o STR_PROMPT
               /\ UNCHANGED <<HISTORY, HISTORY_LENS, HISTORY_INDEX, HISTORY_COUNT>> ]_vars

\* C12 witness: `Help`, which differs from a command name by case only, has
\* been submitted and reported as unknown.
C12_Witness ==
    /\ EnterProcessed
    /\ obs.cmd = Some(LINE_HELP_CAPITAL)
    /\ obs.dispatched = Some(LINE_HELP_CAPITAL)
    /\ obs.invoked = None
    /\ obs.out = <<NL>> \o STR_UNKNOWN_COMMAND \o LINE_HELP_CAPITAL \o STR_TYPE_HELP
                        \o <<NL>> \o STR_PROMPT

\* C13: a printable character that arrives while the line buffer holds
\* LINE_BUF_LEN - 1 bytes (the room push_char allows) is not stored: the
\* line length becomes 0, the bytes of the buffer stay, the overflow notice
\* and the prompt are printed, and the shell is neither halted nor
\* panicked; a printable character that arrives while room remains is
\* written at the end of the line and echoed on the display, and the other
\* bytes of the buffer, the history ring, the browse index and the halted
\* flag stay as they were.
C13_OverflowDiscardsTheLine ==
    [][ (obs'.op = "process_key" /\ IsPrintableKey(obs'.arg))
            => IF LINE_LEN < LINE_BUF_LEN - 1
               THEN /\ LINE_LEN' = LINE_LEN + 1
                    /\ LINE_BUF' = [LINE_BUF EXCEPT ![LINE_LEN] = obs'.arg.c]
                    /\ obs'.out = <<obs'.arg.c>>
                    /\ WRITER' = print(WRITER, <<obs'.arg.c>>)
                    /\ UNCHANGED <<HISTORY, HISTORY_LENS, HISTORY_INDEX, HISTORY_COUNT,
                                   HISTORY_BROWSE_INDEX, halted>>
               ELSE /\ LINE_LEN' = 0
                    /\ LINE_BUF' = LINE_BUF
                    /\ obs'.out = STR_BUFFER_FULL \o <<NL>> \o STR_PROMPT
                    /\ WRITER' = print(WRITER, STR_BUFFER_FULL \o <<NL>> \o STR_PROMPT)
                    /\ ~halted'
                    /\ ~WRITER'.panicked
                    /\ UNCHANGED <<HISTORY, HISTORY_LENS, HISTORY_INDEX, HISTORY_COUNT,
                                   HISTORY_BROWSE_INDEX>> ]_vars

\* C13 witness: a character arrived with the buffer full, the notice and the
\* prompt were printed, and the next character typed was taken as the first
\* of a new line.
C13_Witness ==
    /\ log.overflows = 1
    /\ obs.op = "process_key"
    /\ IsPrintableKey(obs.arg)
    /\ LINE_LEN = 1
    /\ LINE_BUF[0] = obs.arg.c
    /\ WRITER.column_position = Len(STR_PROMPT) + 1
    /\ AsciiOf(WRITER.chars[WRITER.row_position][0]) = STR_PROMPT[1]
    /\ AsciiOf(WRITER.chars[WRITER.row_position - 1][0]) = STR_BUFFER_FULL[2]

\* the position of the cursor, counting the cells of the display row by row
CursorIndex == WRITER.row_position * BUFFER_WIDTH + WRITER.column_position

\* the character in the k-th cell of the display, counting row by row
ShownAt(k) == AsciiOf(WRITER.chars[k \div BUFFER_WIDTH][k % BUFFER_WIDTH])

\* the character write_string puts on the display for a byte of the line
GlyphOf(byte) == IF 32 <= byte /\ byte <= 126 THEN byte ELSE REPLACEMENT_GLYPH

\* the cells between the prompt and the cursor hold the line buffer contents
ScreenShowsTheLine ==
    /\ CursorIndex >= LINE_LEN + Len(STR_PROMPT)
    /\ \A i \in 1..Len(STR_PROMPT) :
           ShownAt(CursorIndex - LINE_LEN - Len(STR_PROMPT) + i - 1) = STR_PROMPT[i]
    /\ \A i \in 1..LINE_LEN :
           ShownAt(CursorIndex - LINE_LEN + i - 1) = GlyphOf(LINE_BUF[i - 1])

\* C14: after every sequence of printable keys and backspaces the display
\* shows the prompt followed by exactly the bytes of the line buffer, the
\* cursor standing behind them.
C14_ScreenShowsTheLineBuffer ==
    (obs.op = "process_key" /\ ~WRITER.panicked) => ScreenShowsTheLine

(***************************************************************************)
(* Properties of the display's backspace (SpecVga)                         *)
(***************************************************************************)
\* C20: Writer::backspace with column_position > 0 moves the cursor one
\* column back in the same row and writes a blank in the current color into
\* the cell it now stands on, every other cell and the color staying as they
\* were; with column_position = 0 the writer is left exactly as it was.
C20_BackspaceBlanksOneCell ==
    [][ (obs'.op = "backspace" /\ ~WRITER.panicked)
            => IF WRITER.column_position > 0
               THEN /\ WRITER'.column_position = WRITER.column_position - 1
                    /\ WRITER'.row_position = WRITER.row_position
                    /\ WRITER'.color_code = WRITER.color_code
                    /\ ~WRITER'.panicked
                    /\ \A r \in Rows : \A c \in Cols :
                           WRITER'.chars[r][c] =
                               IF r = WRITER.row_position /\ c = WRITER.column_position - 1
                               THEN ScreenChar(SPACE, WRITER.color_code)
                               ELSE WRITER.chars[r][c]
               ELSE WRITER' = WRITER ]_vars

\* C20 witness: two characters were written and the second was taken back:
\* the first is still shown, the cursor stands on the blank behind it.
C20_Witness ==
    /\ obs.op = "backspace"
    /\ WRITER.column_position = 1
    /\ AsciiOf(WRITER.chars[WRITER.row_position][0]) = 120
    /\ WRITER.chars[WRITER.row_position][1] = BlankCell
    /\ log.ops = 3

(***************************************************************************)
(* Properties of the interrupt handlers and of the two modes of the kernel *)
(* (SpecArmed, SpecPolling)                                                *)
(***************************************************************************)
\* C15: whenever a hardware interrupt handler returns, it has sent the
\* end-of-interrupt command during this invocation: the timer and the
\* keyboard handler to the master controller, their own line being no longer
\* in service, also when the keyboard handler found the scancode queue full;
\* the spurious handler to the slave and to the master, no line being left
\* in service.
C15_HandlersAcknowledgeBeforeReturn ==
    [][ obs'.op = "iret"
            => /\ handler # None
               /\ handler[1].pc = "iret"
               /\ IF handler[1].name = "spurious"
                  THEN /\ handler[1].acked = <<"slave", "master">>
                       /\ PICS.isr = {}
                  ELSE /\ handler[1].acked = <<"master">>
                       /\ handler[1].vector - PIC_1_OFFSET \notin PICS.isr
                       /\ handler[1].name = "keyboard" => handler[1].pushed # None ]_vars

\* C15 witness: the keyboard handler has returned from the invocation that
\* found the queue full and printed the warning; the master was acknowledged.
C15_Witness ==
    /\ obs.op = "iret"
    /\ obs.arg = PIC_1_OFFSET + 1
    /\ obs.result = <<"master">>
    /\ log.arrivals = SCANCODE_QUEUE_SIZE
    /\ Len(log.accepted) = SCANCODE_QUEUE_SIZE - 1
    /\ INTERRUPT_COUNT = SCANCODE_QUEUE_SIZE
    /\ handler = None
    /\ interrupts_enabled
    /\ PICS.isr = {}

\* the lock the running handler is about to take
HandlerNeeds ==
    IF handler = None THEN {}
    ELSE IF handler[1].pc = "push" THEN {"SCANCODE_QUEUE"}
    ELSE IF handler[1].pc = "warn" THEN {"WRITER"}
    ELSE IF handler[1].pc = "eoi" THEN {"PICS"}
    ELSE {}

\* C16: a hardware interrupt handler never stands before a lock that the
\* interrupted normal-context code holds (the handler would spin on it
\* forever, the interrupted code running only after the handler's return).
C16_HandlerNeverWaitsOnMain == \A l \in HandlerNeeds : locks[l] # "main"

\* C17: when get_key has returned None, which ends a cycle of the main loop,
\* the scancode queue is empty: every byte the keyboard handler pushed has
\* been popped.
C17_CycleDrainsTheQueue ==
    (obs.op = "get_key" /\ obs.result = None) => StoredCount(SCANCODE_QUEUE) = 0

\* C18: at the moment init executes sti, the handlers are installed, the
\* controllers are remapped, the timer line is unmasked and every other line
\* of the two controllers is masked.
C18_OnlyTheTimerIsUnmaskedAtSti ==
    [][ obs'.op = "sti"
            => /\ idt_loaded
               /\ PICS.remapped
               /\ ~BitSet(PICS.mask1, 0)
               /\ \A bit \in 1..7 : BitSet(PICS.mask1, bit)
               /\ \A bit \in 0..7 : BitSet(PICS.mask2, bit) ]_vars

\* C19: in polling mode the interrupt flag is never set, no handler is ever
\* entered (the CPU accepts no request, whatever is pending and unmasked in
\* the controllers) and the scancode queue stays as constructed; a get_key
\* call that found the output-buffer-full bit clear reads no data byte and
\* returns None, a call that found it set reads the data port once, which
\* empties the controller's buffer, and returns what the decoder makes of
\* that byte, one key or none.
C19_PollingReadsThePortItself ==
    /\ [](/\ ~interrupts_enabled
          /\ handler = None
          /\ ~ENABLED Interrupt
          /\ SCANCODE_QUEUE = ScancodeQueue_new
          /\ INTERRUPT_COUNT = 0
          /\ TIMER_COUNT = 0)
    /\ [][ obs'.op = "get_key"
               => /\ obs'.arg.status = (IF keyboard_port.full THEN 1 ELSE 0)
                  /\ IF keyboard_port.full
                     THEN /\ obs'.arg.reads = <<keyboard_port.data>>
                          /\ obs'.result = Decode(keyboard_port.data)
                          /\ ~keyboard_port'.full
                     ELSE /\ obs'.arg.reads = <<>>
                          /\ obs'.result = None
                          /\ keyboard_port' = keyboard_port
                  /\ locks'.KEYBOARD_DECODER = "free" ]_vars

\* C19 witness: get_key has read the byte of the pressed A from the data port
\* and returned the key, while the timer's request is pending and unmasked in
\* the remapped controllers and the handlers are installed.
C19_Witness ==
    /\ main.mode = "polling"
    /\ obs.op = "get_key"
    /\ obs.arg.reads = <<SC_A>>
    /\ obs.result = Some(Unicode(97))
    /\ 0 \in PICS.irr
    /\ Unmasked(PICS, 0)
    /\ idt_loaded
    /\ PICS.remapped

(***************************************************************************)
(* Properties of the cursor and of the cells the display touches (SpecVga) *)
(***************************************************************************)
\* C21 as claimed: in every state the cursor is a cell of the grid, the row
\* in 0..24 and the column in 0..79.
C21_CursorIsACell ==
    /\ WRITER.row_position \in Rows
    /\ WRITER.column_position \in Cols

\* C21: in every state the row of the cursor is in 0..24 and its column in
\* 0..80; the column is 80 only when the last cell of the row has been
\* written and nothing has been taken back since (write_byte wraps before
\* the next write, not after this one), so that the last operation was a
\* write and the cell in column 79 of the cursor's row carries the Writer's
\* colour, not the colour of what the screen held at boot.
C21_CursorBoundedByGrid ==
    /\ WRITER.row_position \in Rows
    /\ WRITER.column_position \in 0..BUFFER_WIDTH
    /\ WRITER.column_position = BUFFER_WIDTH
           => /\ obs.op \in {"write_byte", "write_string"}
              /\ ColorOf(WRITER.chars[WRITER.row_position][BUFFER_WIDTH - 1])
                     = WRITER.color_code

\* C21 witness: the last cell of the last row has been written and the cursor
\* stands behind it, in column 80.
C21_Witness ==
    /\ WRITER.row_position = BUFFER_HEIGHT - 1
    /\ WRITER.column_position = BUFFER_WIDTH
    /\ ~WRITER.panicked

\* a byte outside the printable ASCII range that is not the newline
NonPrintable(byte) == byte \in 0..255 /\ ~(32 <= byte /\ byte <= 126) /\ byte # NL

\* the bytes of the cells of a display
OnScreen(w) == { AsciiOf(w.chars[row][col]) : row \in Rows, col \in Cols }

\* the cell before the cursor
CellBehindCursor(w) == w.chars[w.row_position][w.column_position - 1]

\* the column behind the cell that a character write at this cursor stores
ColumnAfterWrite(w) ==
    (IF w.column_position >= BUFFER_WIDTH THEN 0 ELSE w.column_position) + 1

\* C22 as claimed: a write of a byte that is neither printable nor the
\* newline, made with write_byte or with write_string, stores the replacement
\* glyph 0xfe in the cell at the cursor and advances the cursor by one cell.
C22_WriteStoresTheGlyph ==
    [][ (\/ obs'.op = "write_byte" /\ NonPrintable(obs'.arg)
         \/ obs'.op = "write_string" /\ Len(obs'.arg) = 1 /\ NonPrintable(obs'.arg[1]))
            => /\ WRITER'.column_position = ColumnAfterWrite(WRITER)
               /\ AsciiOf(CellBehindCursor(WRITER')) = REPLACEMENT_GLYPH ]_vars

\* C22: write_string, through which print! and println! reach the display,
\* stores the replacement glyph 0xfe for every byte of its string that is
\* neither printable nor the newline (the carriage return and each byte of a
\* multi-byte character included) and advances the cursor by one cell for it;
\* no cell it changes holds another such byte, unless scrolling brought it
\* from a cell of the screen.  write_byte called by itself stores the byte it
\* is given, and does nothing for the carriage return.
C22_WriteStringStoresTheGlyph ==
    [][ /\ obs'.op = "write_string"
            => /\ (Len(obs'.arg) = 1 /\ NonPrintable(obs'.arg[1]))
                      => /\ WRITER'.column_position = ColumnAfterWrite(WRITER)
                         /\ CellBehindCursor(WRITER')
                                = ScreenChar(REPLACEMENT_GLYPH, WRITER.color_code)
               /\ \A row \in Rows, col \in Cols :
                      WRITER'.chars[row][col] # WRITER.chars[row][col]
                          => \/ ~NonPrintable(AsciiOf(WRITER'.chars[row][col]))
                             \/ AsciiOf(WRITER'.chars[row][col]) = REPLACEMENT_GLYPH
                             \/ AsciiOf(WRITER'.chars[row][col]) \in OnScreen(WRITER)
        /\ (obs'.op = "write_byte" /\ NonPrintable(obs'.arg))
            => IF obs'.arg = CR
               THEN WRITER' = WRITER
               ELSE /\ WRITER'.column_position = ColumnAfterWrite(WRITER)
                    /\ CellBehindCursor(WRITER') = ScreenChar(obs'.arg, WRITER.color_code)
      ]_vars

\* C22 witness: write_string was given the two bytes of a multi-byte
\* character at the start of a row and stored the glyph twice.
C22_Witness ==
    /\ obs.op = "write_string"
    /\ obs.arg = <<195, 169>>
    /\ WRITER.column_position = 2
    /\ AsciiOf(WRITER.chars[WRITER.row_position][0]) = REPLACEMENT_GLYPH
    /\ AsciiOf(WRITER.chars[WRITER.row_position][1]) = REPLACEMENT_GLYPH

\* C26: whatever write_byte, write_string, backspace and clear_screen calls
\* are made from the cursor at (0, 0), no call indexes the grid outside rows
\* 0..24 and columns 0..79 (an index outside would panic), and the grid keeps
\* its 25 rows of 80 cells.
C26_EveryAccessInsideTheGrid ==
    /\ ~WRITER.panicked
    /\ DOMAIN WRITER.chars = Rows
    /\ \A row \in Rows : DOMAIN WRITER.chars[row] = Cols

\* C26 witness: a character has been written right after the 80th character
\* of the last row: the display scrolled, the full row is now row 23 and the
\* character is in column 0 of row 24.
C26_Witness ==
    /\ obs.op = "write_byte"
    /\ obs.arg = 120
    /\ ~WRITER.panicked
    /\ WRITER.row_position = BUFFER_HEIGHT - 1
    /\ WRITER.column_position = 1
    /\ WRITER.chars[BUFFER_HEIGHT - 1][0] = ScreenChar(120, WRITER.color_code)
    /\ \A col \in Cols :
           WRITER.chars[BUFFER_HEIGHT - 2][col] = ScreenChar(120, WRITER.color_code)

(***************************************************************************)
(* Properties of the dispatch (SpecShell)                                  *)
(***************************************************************************)
\* the tokens split_whitespace found in a line, in order
Tokens(line) == ActualArgs([k \in 1..MAX_TOKENS |-> split_whitespace(line)[k - 1]])

\* C23: when Enter has been processed and the line was handed to the
\* dispatch, a line without a token has invoked nothing and printed nothing
\* but the line break and the prompt, and an action that was invoked has
\* received exactly the tokens behind the first, in order: k - 1 arguments
\* from a line of k tokens.
C23_ActionGetsTheRemainingTokens ==
    (EnterProcessed /\ obs.dispatched # None)
        => IF Tokens(obs.dispatched[1]) = <<>>
           THEN obs.invoked = None /\ obs.out = <<NL>> \o STR_PROMPT
           ELSE obs.invoked # None
                    => obs.invoked[1].args = Tail(Tokens(obs.dispatched[1]))

Diagnostic(kind) == IF kind = "page_fault" THEN "address" ELSE "error_code"

\* C24: a fatal exception handler never stands before the display lock while
\* the interrupted code holds it (the handler would spin on it forever and
\* never reach its halt loop), and when it halts it has reported its
\* diagnostic: the faulting address for a page fault, the error code for a
\* general-protection fault and for a double fault.
C24_ExceptionHandlersNeverWaitOnMain ==
    /\ (handler # None /\ handler[1].pc = "report") => locks.WRITER # "main"
    /\ (handler # None /\ handler[1].pc = "halt")
           => \E i \in 1..Len(handler[1].reported) :
                  handler[1].reported[i] = Diagnostic(handler[1].name)

=============================================================================
